---- MODULE Spec2Model ----
(***************************************************************************)
(* Ledger, matching engine, withdrawal coordinator and deposit sync of the *)
(* CryptoExchange backend.                                                 *)
(*                                                                         *)
(* Money.  Every money column is Numeric(18, 8): the database stores a     *)
(* whole number of quanta (1e-8 in the program).  Inside a request the     *)
(* ORM objects hold Python Decimals that are NOT rounded: price * amount   *)
(* and amount * fee_rate carry more fractional digits than a column, and   *)
(* the database rounds (half away from zero) when a row is written.  The   *)
(* model stores quanta in the tables and computes inside a request in      *)
(* "fine" units, Fine of them per quantum, so that every product and fee   *)
(* is an exact integer; Unit quanta make one whole coin (the scaled-down   *)
(* 10^8).                                                                  *)
(***************************************************************************)
EXTENDS Integers, Naturals, Sequences, FiniteSets, TLC

\* ------------------------------------------------------------------ scale
Unit == 2                 \* quanta per whole coin (scale of Numeric(18, 8))
RateDen == 1000           \* a fee rate r stands for r / 1000
Fine == Unit * RateDen    \* fine units per quantum
DefaultFeeRate == 1       \* Decimal("0.001")
MIN_CONFIRMATIONS == 2

\* ------------------------------------------------------------------ bounds
MaxOrders == 3            \* orders placed in one behaviour
MaxWithdrawals == 1       \* withdrawals started in one behaviour
MaxFeeWithdrawals == 1    \* fee withdrawals in one behaviour
MaxSyncs == 2             \* sync passes in one behaviour (safety specs)
MaxRequests == 2          \* requests in one behaviour of the combined spec

\* ------------------------------------------------------------------ universe
Users == {1, 2, 3}
Traders == {1, 2}
BASE == "DGB"
QUOTE == "XMR"
Coins == {BASE, QUOTE}
Sides == {"buy", "sell"}
NULL == -1                \* a null column
FeeRates == {NULL, 500}
Prices == {1, 2}          \* order prices, in quanta per whole coin
Amounts == {1, 2}         \* order and withdrawal amounts, in quanta
InitFunds == 4            \* quanta credited to each funded balance row

Min(a, b) == IF a < b THEN a ELSE b
Abs(x) == IF x < 0 THEN -x ELSE x

\* ------------------------------------------------------------------ rows
NoBalance == [exists |-> FALSE, available |-> 0, locked |-> 0, total |-> 0]
NewBalance == [exists |-> TRUE, available |-> 0, locked |-> 0, total |-> 0]
NoFeeBalance == [exists |-> FALSE, amount |-> 0]

\* Numeric(18, 8) column assignment: round to the column scale, ties away
\* from zero (fine units -> quanta).
RoundQ(x) ==
    IF x >= 0 THEN (2 * x + Fine) \div (2 * Fine)
    ELSE -(((2 * (-x)) + Fine) \div (2 * Fine))

\* A column read into the session (quanta -> fine units).
ToFine(q) == q * Fine

LoadBalance(row) ==
    [exists |-> row.exists, available |-> ToFine(row.available),
     locked |-> ToFine(row.locked), total |-> ToFine(row.total)]

StoreBalance(row) ==
    [exists |-> row.exists, available |-> RoundQ(row.available),
     locked |-> RoundQ(row.locked), total |-> RoundQ(row.total)]

LoadFee(row) == [exists |-> row.exists, amount |-> ToFine(row.amount)]
StoreFee(row) == [exists |-> row.exists, amount |-> RoundQ(row.amount)]

VARIABLES
    balances,      \* [Users \X Coins -> balance row], quanta
    orders,        \* sequence of order rows, index = id
    trades,        \* sequence of trade rows
    fees,          \* sequence of fee rows
    feePool,       \* [Coins -> fee balance row], quanta
    transactions,  \* sequence of chain transaction rows
    syncState,     \* [Coins -> cursor], NULL when there is no row
    feeRate,       \* the market's fee_rate column
    conf,          \* chain: confirmations of each receipt (0 = not listed)
    chainOut,      \* chain: the sends a coin node accepted
    wd,            \* the withdrawal request in progress
    txn,           \* the concurrent order requests in progress
    lease,         \* holder of the market's advisory lock, 0 when free
    count,         \* requests started so far, by kind
    last,          \* outcome of the last request
    markets,       \* sequence of market rows, index = id
    coin_nodes,    \* [Coins -> coin node configuration row]
    node_cache     \* coinNodes._node_cache: [Coins -> adapter]

ledgerVars == <<balances, orders, trades, fees, feePool, transactions, syncState>>
chainVars == <<conf, chainOut>>
adminVars == <<markets, coin_nodes, node_cache>>
vars == <<balances, orders, trades, fees, feePool, transactions, syncState,
          feeRate, conf, chainOut, wd, txn, lease, count, last,
          markets, coin_nodes, node_cache>>

\* The tables a request works on, as one value.
Ledger == [bal |-> balances, ord |-> orders, trades |-> trades,
           fees |-> fees, pool |-> feePool]

\* A session: the ledger as ORM objects, money in fine units.
OpenSession(db) ==
    [bal |-> [k \in DOMAIN db.bal |-> LoadBalance(db.bal[k])],
     ord |-> db.ord,
     trades |-> db.trades,
     fees |-> [i \in DOMAIN db.fees |->
                 [db.fees[i] EXCEPT !.amount = ToFine(@)]],
     pool |-> [c \in DOMAIN db.pool |-> LoadFee(db.pool[c])]]

\* Commit: every written row goes through its column type.
CommitSession(S) ==
    [bal |-> [k \in DOMAIN S.bal |-> StoreBalance(S.bal[k])],
     ord |-> S.ord,
     trades |-> S.trades,
     fees |-> [i \in DOMAIN S.fees |->
                 [S.fees[i] EXCEPT !.amount = RoundQ(S.fees[i].amount)]],
     pool |-> [c \in DOMAIN S.pool |-> StoreFee(S.pool[c])]]

\* ------------------------------------------------------------------ helpers.py
get_or_create_balance(bal, user_id, coin) ==
    IF bal[<<user_id, coin>>].exists THEN bal
    ELSE [bal EXCEPT ![<<user_id, coin>>] = NewBalance]

add_fee_to_balance(pool, coin_symbol, amount) ==
    LET p == IF pool[coin_symbol].exists THEN pool
             ELSE [pool EXCEPT ![coin_symbol] = [exists |-> TRUE, amount |-> 0]]
    IN [p EXCEPT ![coin_symbol].amount = @ + amount]

\* ------------------------------------------------------------------ utils.py
\* TRUE when the check passes (no row, or |total - (available + locked)|
\* is at most 0.00000001, one quantum).
validate_transaction_integrity(bal, user_id, coin_symbol) ==
    LET b == bal[<<user_id, coin_symbol>>] IN
    IF b.exists
    THEN ~(Abs(b.total - (b.available + b.locked)) > ToFine(1))
    ELSE TRUE

\* ------------------------------------------------------------------ matcher.py
\* market.fee_rate or Decimal("0.001"): a null and a zero rate are both
\* falsy in Python.
EffectiveFeeRate(fr) == IF fr = NULL \/ fr = 0 THEN DefaultFeeRate ELSE fr

\* The status filter of the two order queries.
MatchableStatus(st) == st = "open"

\* The id of the market the ledger trades on: the market_id every order
\* request carries and match_orders is called with.
LedgerMarket == 1

\* filter_by(market_id=market_id, side=..., status=OrderStatus.open)
BookIds(ord, side) ==
    {i \in 1..Len(ord) : /\ ord[i].market_id = LedgerMarket
                         /\ ord[i].side = side
                         /\ MatchableStatus(ord[i].status)}

\* Variant of the price check that never ends the inner loop.
PriceMismatch_Never(buy, sell) == FALSE

\* if sell.price > buy.price: break
PriceMismatch(buy, sell) == sell.price > buy.price

\* ORDER BY price DESC, created_at ASC
BuyBefore(x, y) ==
    \/ x.price > y.price
    \/ x.price = y.price /\ x.created_at < y.created_at

\* ORDER BY price ASC, created_at ASC
SellBefore(x, y) ==
    \/ x.price < y.price
    \/ x.price = y.price /\ x.created_at < y.created_at

RECURSIVE SortBuys(_, _)
SortBuys(ord, ids) ==
    IF ids = {} THEN <<>>
    ELSE LET f == CHOOSE i \in ids :
                    \A j \in ids \ {i} : BuyBefore(ord[i], ord[j])
         IN <<f>> \o SortBuys(ord, ids \ {f})

RECURSIVE SortSells(_, _)
SortSells(ord, ids) ==
    IF ids = {} THEN <<>>
    ELSE LET f == CHOOSE i \in ids :
                    \A j \in ids \ {i} : SellBefore(ord[i], ord[j])
         IN <<f>> \o SortSells(ord, ids \ {f})

\* Variant that never marks an order filled.
StatusAfterFill_NeverFilled(o) ==
    IF o.remaining < o.amount THEN "partially_filled" ELSE o.status

\* if remaining <= 0: filled; elif remaining < amount: partially_filled
StatusAfterFill(o) ==
    IF o.remaining <= 0 THEN "filled"
    ELSE IF o.remaining < o.amount THEN "partially_filled"
    ELSE o.status

\* Variant without the refund of the price improvement.
BuyerQuoteAfter_NoRefund(row, buy_price, trade_amount, total_quote) ==
    LET r1 == [row EXCEPT !.locked = @ - total_quote]
    IN [r1 EXCEPT !.total = r1.available + r1.locked]

\* Buyer's quote row of one trade: unlock the quote used by the trade, refund
\* the price improvement to available, recompute total.
BuyerQuoteAfter(row, buy_price, trade_amount, total_quote) ==
    LET locked_at_order_price == buy_price * trade_amount * RateDen
        unused_locked == locked_at_order_price - total_quote
        r1 == [row EXCEPT !.locked = @ - total_quote]
        r2 == IF unused_locked > 0
              THEN [r1 EXCEPT !.available = @ + unused_locked]
              ELSE r1
    IN [r2 EXCEPT !.total = r2.available + r2.locked]

\* Variant that trades the whole remainder of the buy.
TradeAmount_BuyRemaining(buy, sell) == buy.remaining

\* trade_amount = min(buy.remaining, sell.remaining)
TradeAmount(buy, sell) == Min(buy.remaining, sell.remaining)

\* The body of the inner loop for one (buy, sell) pair that trades.
ExecuteTrade(S, b, s, fr) ==
    LET buy == S.ord[b]
        sell == S.ord[s]
        trade_price == sell.price
        trade_amount == TradeAmount(buy, sell)
        total_quote == trade_price * trade_amount * RateDen
        fee_rate == EffectiveFeeRate(fr)
        base_fee == trade_amount * Unit * fee_rate
        quote_fee == trade_price * trade_amount * fee_rate
        bb == <<buy.user_id, BASE>>
        bq == <<buy.user_id, QUOTE>>
        sq == <<sell.user_id, QUOTE>>
        sb == <<sell.user_id, BASE>>
        \* buyer logic
        b1 == get_or_create_balance(S.bal, buy.user_id, BASE)
        b2 == [b1 EXCEPT ![bb].available = @ + ToFine(trade_amount) - base_fee,
                         ![bb].total = @ + ToFine(trade_amount) - base_fee]
        b3 == get_or_create_balance(b2, buy.user_id, QUOTE)
        b4 == [b3 EXCEPT ![bq] =
                 BuyerQuoteAfter(@, buy.price, trade_amount, total_quote)]
        \* seller logic
        b5 == get_or_create_balance(b4, sell.user_id, QUOTE)
        b6 == [b5 EXCEPT ![sq].available = @ + total_quote - quote_fee,
                         ![sq].total = @ + total_quote - quote_fee]
        b7 == get_or_create_balance(b6, sell.user_id, BASE)
        b8 == [b7 EXCEPT ![sb].locked = @ - ToFine(trade_amount)]
        b9 == [b8 EXCEPT ![sb].total = b8[sb].available + b8[sb].locked]
        b10 == [b9 EXCEPT ![sq].total = b9[sq].available + b9[sq].locked]
        tid == Len(S.trades) + 1
        trade == [id |-> tid, buy_order_id |-> buy.id, sell_order_id |-> sell.id,
                  market_id |-> LedgerMarket,
                  price |-> trade_price, amount |-> trade_amount]
        p1 == add_fee_to_balance(S.pool, BASE, base_fee)
        p2 == add_fee_to_balance(p1, QUOTE, quote_fee)
        nb == [buy EXCEPT !.remaining = @ - trade_amount]
        ns == [sell EXCEPT !.remaining = @ - trade_amount]
        o1 == [S.ord EXCEPT ![b] = [nb EXCEPT !.status = StatusAfterFill(nb)]]
        \* buy and sell are different rows: a row has one side
        o2 == [o1 EXCEPT ![s] = [ns EXCEPT !.status = StatusAfterFill(ns)]]
    IN [bal |-> b10,
        ord |-> o2,
        trades |-> Append(S.trades, trade),
        fees |-> S.fees \o
                 <<[trade_id |-> tid, coin_symbol |-> BASE, amount |-> base_fee],
                   [trade_id |-> tid, coin_symbol |-> QUOTE, amount |-> quote_fee]>>,
        pool |-> p2]

\* for sell in sells: ...
RECURSIVE MatchSells(_, _, _, _, _)
MatchSells(S, b, sells, j, fr) ==
    IF j > Len(sells) THEN S
    ELSE LET s == sells[j] IN
         IF S.ord[s].remaining <= 0 THEN MatchSells(S, b, sells, j + 1, fr)
         ELSE IF PriceMismatch(S.ord[b], S.ord[s]) THEN S
         ELSE LET S2 == ExecuteTrade(S, b, s, fr) IN
              IF S2.ord[b].remaining <= 0 THEN S2
              ELSE MatchSells(S2, b, sells, j + 1, fr)

\* for buy in buys: ...
RECURSIVE MatchBuys(_, _, _, _, _)
MatchBuys(S, buys, sells, i, fr) ==
    IF i > Len(buys) THEN S
    ELSE IF S.ord[buys[i]].remaining <= 0
         THEN MatchBuys(S, buys, sells, i + 1, fr)
         ELSE MatchBuys(MatchSells(S, buys[i], sells, 1, fr),
                        buys, sells, i + 1, fr)

\* The two loops over the rows the queries returned.
match_rows(S, buys, sells, fr) == MatchBuys(S, buys, sells, 1, fr)

\* With creation times that all differ the ORDER BY fixes the rows' order.
match_orders(S, fr) ==
    match_rows(S, SortBuys(S.ord, BookIds(S.ord, "buy")),
               SortSells(S.ord, BookIds(S.ord, "sell")), fr)

\* The row orders a query may return: the ORDER BY names price and
\* created_at only, so rows equal in both come in an order the database
\* chooses.
Arrangements(ids) ==
    {f \in [1..Cardinality(ids) -> ids] :
        \A i, j \in 1..Cardinality(ids) : i # j => f[i] # f[j]}

QueryBuys(ord) ==
    {f \in Arrangements(BookIds(ord, "buy")) :
        \A i, j \in DOMAIN f : i < j => ~BuyBefore(ord[f[j]], ord[f[i]])}

QuerySells(ord) ==
    {f \in Arrangements(BookIds(ord, "sell")) :
        \A i, j \in DOMAIN f : i < j => ~SellBefore(ord[f[j]], ord[f[i]])}

\* ------------------------------------------------------------------ order_service.py
\* The amount an order reserves, in fine units, and the coin it reserves.
RequiredFor(side, price, amount) ==
    IF side = "buy" THEN price * amount * RateDen ELSE ToFine(amount)

ReserveCoin(side) == IF side = "buy" THEN QUOTE ELSE BASE

\* Variant comparing the requirement with total instead of available.
InsufficientBalance_Total(row, need) == ~row.exists \/ row.total < need

\* if not balance or balance.available < required
InsufficientBalance(row, need) == ~row.exists \/ row.available < need

\* The part of place_order before the matcher, in session S: lock and check
\* the reserve row, move the funds to locked, validate, insert the order.
reserve_funds(S, user_id, side, price, amount) ==
    LET coin == ReserveCoin(side)
        k == <<user_id, coin>>
        need == RequiredFor(side, price, amount)
    IN
    IF InsufficientBalance(S.bal[k], need)
    THEN [err |-> "insufficient_balance", S |-> S]
    ELSE LET reserved == [S.bal EXCEPT ![k].available = @ - need,
                                       ![k].locked = @ + need]
         IN
         IF ~validate_transaction_integrity(reserved, user_id, coin)
         THEN [err |-> "integrity", S |-> S]
         ELSE LET oid == Len(S.ord) + 1
                  new_order == [id |-> oid, user_id |-> user_id,
                                market_id |-> LedgerMarket, side |-> side,
                                price |-> price, amount |-> amount,
                                remaining |-> amount, status |-> "open",
                                created_at |-> oid]
              IN [err |-> "",
                  S |-> [S EXCEPT !.bal = reserved,
                                  !.ord = Append(S.ord, new_order)]]

\* reserve_funds when utc_now() returns now for the new order's created_at.
reserve_funds_at(S, user_id, side, price, amount, now) ==
    LET r == reserve_funds(S, user_id, side, price, amount) IN
    IF r.err # "" THEN r
    ELSE [r EXCEPT !.S.ord[Len(r.S.ord)].created_at = now]

\* OrderService.place_order on the ledger db; the result carries the error
\* ("" when the order was committed) and the ledger after the request.
place_order(db, fr, user_id, side, price, amount) ==
    LET r == reserve_funds(OpenSession(db), user_id, side, price, amount) IN
    IF r.err # ""
    THEN [err |-> r.err, db |-> db]
    ELSE [err |-> "", db |-> CommitSession(match_orders(r.S, fr))]

\* Variant that lets an order of any status be cancelled.
Cancellable_Any(order) == TRUE

\* order.status in [OrderStatus.open, OrderStatus.partially_filled]
Cancellable(order) == order.status \in {"open", "partially_filled"}

\* OrderService.cancel_order
cancel_order(db, user_id, order_id) ==
    LET S == OpenSession(db) IN
    IF ~(order_id \in 1..Len(S.ord)) \/ S.ord[order_id].user_id # user_id
    THEN [err |-> "not_found", db |-> db]
    ELSE LET order == S.ord[order_id] IN
    IF ~Cancellable(order)
    THEN [err |-> "already_terminal", db |-> db]
    ELSE LET coin == ReserveCoin(order.side)
             k == <<user_id, coin>>
             refund == RequiredFor(order.side, order.price, order.remaining)
             released == IF S.bal[k].exists
                         THEN [S.bal EXCEPT ![k].locked = @ - refund,
                                            ![k].available = @ + refund]
                         ELSE S.bal
         IN
         IF ~validate_transaction_integrity(released, user_id, coin)
         THEN [err |-> "integrity", db |-> db]
         ELSE [err |-> "",
               db |-> CommitSession(
                        [S EXCEPT !.bal = released,
                                  !.ord[order_id].status = "cancelled"])]

\* ------------------------------------------------------------------ admin_service.py
\* AdminService.withdraw_fees on the fee-pool table (amount in quanta).
withdraw_fees(pool, coin, amount) ==
    LET fb == LoadFee(pool[coin]) IN
    IF ~fb.exists \/ fb.amount < ToFine(amount)
    THEN [err |-> "insufficient_fee_balance", pool |-> pool]
    ELSE [err |-> "",
          pool |-> [pool EXCEPT ![coin] =
                      StoreFee([fb EXCEPT !.amount = @ - ToFine(amount)])]]

\* ------------------------------------------------------------------ coin nodes
NodeType(coin) == IF coin = QUOTE THEN "monero" ELSE "btc"

AtomicPerQuantum == 10    \* scaled 10^12 / 10^8 piconero per quantum

\* int(amount * Decimal("1e12")): quanta -> atomic units
xmr_to_atomic(amount) == amount * AtomicPerQuantum

\* Decimal(tx["amount"]) / Decimal("1e12"): atomic units -> fine units
atomic_to_xmr(atomic) == atomic * (Fine \div AtomicPerQuantum)

\* The Address table, in id order.  minor is extra_info["address_index"].
Addresses ==
    << [address |-> "a1", user_id |-> 1, coin_symbol |-> BASE, minor |-> NULL],
       [address |-> "a2", user_id |-> 2, coin_symbol |-> BASE, minor |-> NULL],
       [address |-> "x1", user_id |-> 1, coin_symbol |-> QUOTE, minor |-> 1],
       [address |-> "x2", user_id |-> 2, coin_symbol |-> QUOTE, minor |-> 2] >>

\* The transfers the chains can hold, in the order the nodes list them.
\* Entries 1 and 2 are two outputs of one chain transaction; the last two
\* entries pay destinations that no user registered.  amount is in
\* quanta for the Bitcoin family and in atomic units for Monero; time is the
\* block hash (Bitcoin family) or the timestamp (Monero) of the entry.
Receipts ==
    << [txid |-> 11, coin |-> BASE, address |-> "a1", minor |-> NULL,
        amount |-> 2, time |-> 1],
       [txid |-> 11, coin |-> BASE, address |-> "a2", minor |-> NULL,
        amount |-> 1, time |-> 1],
       [txid |-> 21, coin |-> QUOTE, address |-> "x1", minor |-> 1,
        amount |-> 20, time |-> 1],
       [txid |-> 22, coin |-> QUOTE, address |-> "x2", minor |-> 2,
        amount |-> 10, time |-> 2],
       [txid |-> 11, coin |-> BASE, address |-> "a9", minor |-> NULL,
        amount |-> 1, time |-> 1],
       [txid |-> 22, coin |-> QUOTE, address |-> "x9", minor |-> 9,
        amount |-> 10, time |-> 2] >>

ChainTxids == {Receipts[i].txid : i \in 1..Len(Receipts)}

\* ------------------------------------------------------------------ syncBals.py
TxExists(txs, txid) == \E i \in 1..Len(txs) : txs[i].tx_id = txid

ReceivedRow(user_id, txid, amount, coin) ==
    [user_id |-> user_id, tx_id |-> txid, amount |-> amount,
     direction |-> "received", coin_symbol |-> coin]

\* balance.total += amount; balance.available += amount; db.add(Transaction)
\* st = [bal (fine units), txs, seen]; amount in fine units.
CreditReceipt(st, user_id, coin, txid, amount, seen) ==
    LET k == <<user_id, coin>>
        b1 == get_or_create_balance(st.bal, user_id, coin)
    IN [bal |-> [b1 EXCEPT ![k].total = @ + amount,
                           ![k].available = @ + amount],
        txs |-> Append(st.txs, ReceivedRow(user_id, txid, amount, coin)),
        seen |-> seen]

\* index_map: subaddress index -> address row (a later row wins)
IndexMap(coin, minor) ==
    LET hits == {i \in 1..Len(Addresses) :
                    /\ Addresses[i].coin_symbol = coin
                    /\ Addresses[i].minor # NULL
                    /\ Addresses[i].minor = minor}
    IN IF hits = {} THEN 0 ELSE CHOOSE i \in hits : \A j \in hits : j <= i

\* One transfer of the Monero loop.
MoneroReceipt(st, coin, tx, confirmations, since_marker) ==
    IF tx.minor = NULL THEN st
    ELSE LET a == IndexMap(coin, tx.minor) IN
    IF a = 0 THEN st
    ELSE IF TxExists(st.txs, tx.txid) THEN st
    ELSE IF confirmations < MIN_CONFIRMATIONS THEN st
    ELSE IF since_marker # NULL /\ tx.time <= since_marker THEN st
    ELSE CreditReceipt(st, Addresses[a].user_id, coin, tx.txid,
                       atomic_to_xmr(tx.amount),
                       IF st.seen = NULL \/ tx.time > st.seen
                       THEN tx.time ELSE st.seen)

\* Variant without the lookup of the txid among the recorded transactions.
BtcReceipt_NoDedup(st, coin, addr, tx, confirmations) ==
    IF tx.address # addr.address THEN st
    ELSE IF confirmations < MIN_CONFIRMATIONS THEN st
    ELSE CreditReceipt(st, addr.user_id, coin, tx.txid, ToFine(tx.amount),
                       tx.time)

\* One (address, entry) pair of the Bitcoin-family loops.
BtcReceipt(st, coin, addr, tx, confirmations) ==
    IF tx.address # addr.address THEN st
    ELSE IF confirmations < MIN_CONFIRMATIONS THEN st
    ELSE IF TxExists(st.txs, tx.txid) THEN st
    ELSE CreditReceipt(st, addr.user_id, coin, tx.txid, ToFine(tx.amount),
                       tx.time)

\* The entries a node lists for a coin: indices into Receipts, in order.
RECURSIVE Listed(_, _, _)
Listed(coin, cf, i) ==
    IF i > Len(Receipts) THEN <<>>
    ELSE IF Receipts[i].coin = coin /\ cf[Receipts[i].txid] >= 1
         THEN <<i>> \o Listed(coin, cf, i + 1)
         ELSE Listed(coin, cf, i + 1)

\* The loops below bind each step's result with a one-element set, so that
\* the step is evaluated once before the next iteration reads it.
RECURSIVE MoneroLoop(_, _, _, _, _, _)
MoneroLoop(st, coin, list, i, cf, since_marker) ==
    IF i > Len(list) THEN st
    ELSE CHOOSE r \in
           {MoneroLoop(s, coin, list, i + 1, cf, since_marker) :
              s \in {MoneroReceipt(st, coin, Receipts[list[i]],
                                   cf[Receipts[list[i]].txid], since_marker)}} :
           TRUE

RECURSIVE BtcTxLoop(_, _, _, _, _, _)
BtcTxLoop(st, coin, addr, list, i, cf) ==
    IF i > Len(list) THEN st
    ELSE CHOOSE r \in
           {BtcTxLoop(s, coin, addr, list, i + 1, cf) :
              s \in {BtcReceipt(st, coin, addr, Receipts[list[i]],
                                cf[Receipts[list[i]].txid])}} :
           TRUE

RECURSIVE BtcAddrLoop(_, _, _, _, _)
BtcAddrLoop(st, coin, a, list, cf) ==
    IF a > Len(Addresses) THEN st
    ELSE IF Addresses[a].coin_symbol # coin
         THEN BtcAddrLoop(st, coin, a + 1, list, cf)
         ELSE CHOOSE r \in
                {BtcAddrLoop(s, coin, a + 1, list, cf) :
                   s \in {BtcTxLoop(st, coin, Addresses[a], list, 1, cf)}} :
                TRUE

\* The session a coin's iteration starts from: rows as loaded, nothing seen.
SyncSession(db) ==
    [bal |-> [k \in DOMAIN db.bal |-> LoadBalance(db.bal[k])],
     txs |-> db.txs, seen |-> NULL]

\* The branch of the coin's node type, over the entries the node lists.
SyncLoop(db, coin, cf) ==
    IF NodeType(coin) = "monero"
    THEN MoneroLoop(SyncSession(db), coin, Listed(coin, cf, 1), 1, cf,
                    db.cur[coin])
    ELSE BtcAddrLoop(SyncSession(db), coin, 1, Listed(coin, cf, 1), cf)

\* Cursor update and db.commit(): values are stored at column scale.
SyncCommit(db, coin, st) ==
    [bal |-> [k \in DOMAIN st.bal |-> StoreBalance(st.bal[k])],
     txs |-> [i \in DOMAIN st.txs |->
                IF i > Len(db.txs)
                THEN [st.txs[i] EXCEPT !.amount = RoundQ(@)]
                ELSE st.txs[i]],
     cur |-> IF st.seen # NULL THEN [db.cur EXCEPT ![coin] = st.seen]
             ELSE db.cur]

\* One coin of a pass, committed: db = [bal (quanta), txs, cur].
sync_coin(db, coin, cf) ==
    CHOOSE r \in {SyncCommit(db, coin, st) : st \in {SyncLoop(db, coin, cf)}} :
        TRUE

\* The coins of the pass, in the order their first address appears.
SyncOrder == <<BASE, QUOTE>>

\* sync_balances: one pass over the coins; up is the set of coins whose node
\* answers.  A failing node raises: the coin's work is rolled back and the
\* pass ends.
\* Variant whose failure path keeps the coin's credits and drops only the
\* cursor change.
SyncFailed_Partial(db, coin, cf) ==
    [sync_coin(db, coin, cf) EXCEPT !.cur = db.cur]

\* except: db.rollback() -- the work done for the coin in progress is
\* discarded, the committed tables stay as they were.
SyncFailed(db, coin, cf) == db

RECURSIVE SyncCoins(_, _, _, _)
SyncCoins(db, i, cf, up) ==
    IF i > Len(SyncOrder) THEN db
    ELSE IF SyncOrder[i] \notin up THEN SyncFailed(db, SyncOrder[i], cf)
    ELSE CHOOSE r \in
           {SyncCoins(d, i + 1, cf, up) :
              d \in {sync_coin(db, SyncOrder[i], cf)}} :
           TRUE

sync_balances(db, cf, up) == SyncCoins(db, 1, cf, up)

\* ------------------------------------------------------------------ withdrawal_service.py
\* outcome is what the send did; before is the committed row and ntx the
\* number of Transaction rows when the request began.
Idle == [pc |-> "idle", user_id |-> 0, coin |-> "", amount |-> 0,
         available |-> 0, total |-> 0, txid |-> 0, err |-> "",
         outcome |-> "", before |-> NoBalance, ntx |-> 0]

SentRow(user_id, txid, amount, coin) ==
    [user_id |-> user_id, tx_id |-> txid, amount |-> amount,
     direction |-> "sent", coin_symbol |-> coin]

\* The balance check and the deduction that precede the send.  The result is
\* the error, or the session's row after balance.available -= amount and
\* balance.total -= amount (amount is quantized: whole quanta).
Deduct(bal, user_id, coin, amount) ==
    LET k == <<user_id, coin>>
        S == [kk \in DOMAIN bal |-> LoadBalance(bal[kk])]
    IN
    IF InsufficientBalance(S[k], ToFine(amount))
    THEN [err |-> "insufficient_balance", row |-> bal[k]]
    ELSE LET S1 == [S EXCEPT ![k].available = @ - ToFine(amount),
                             ![k].total = @ - ToFine(amount)]
         IN IF ~validate_transaction_integrity(S1, user_id, coin)
            THEN [err |-> "integrity", row |-> bal[k]]
            ELSE [err |-> "", row |-> StoreBalance(S1[k])]

\* What the node puts on the wire for a withdrawal of amount quanta.
WireAmount(coin, amount) ==
    IF NodeType(coin) = "monero" THEN xmr_to_atomic(amount) ELSE amount

\* Outcomes of node.send_to_address as the handler sees them.
SendOutcomes == {"txid", "reply_lost", "rpc_error", "no_txid"}

\* Whether the node broadcast the payment under an outcome.
NodeAccepted(outcome) == outcome \in {"txid", "reply_lost"}

\* raise Exception(f"Withdrawal failed: {str(node_error)}")
FailureMessage(node_error) == node_error

\* Variant without the "if not txid: raise" checks.
SendSucceeded_NoTxidCheck(outcome) == outcome \in {"txid", "no_txid"}

\* Whether the handler reaches db.add(new_tx) under an outcome.
SendSucceeded(outcome) == outcome = "txid"

\* ------------------------------------------------------------------ models.py
\* A Market row; the id is the row's index in markets.
Market(base_coin, quote_coin) ==
    [base_coin |-> base_coin, quote_coin |-> quote_coin, active |-> TRUE]

\* A CoinNode row.  rev stands for the connection columns (node_host,
\* node_port, node_user, node_pass, node_type): each update writes a new rev.
NoCoinNode == [exists |-> FALSE, enabled |-> FALSE, rev |-> 0]
CoinNode(rev) == [exists |-> TRUE, enabled |-> TRUE, rev |-> rev]

\* The value of a coin that has no entry in coinNodes._node_cache.
NoAdapter == [src |-> "none", rev |-> 0]

\* The tables and the adapter cache around the ledger: the one market the
\* ledger trades on, one enabled node per coin, nothing cached yet.
AdminInit ==
    /\ markets = <<Market(BASE, QUOTE)>>
    /\ coin_nodes = [c \in Coins |-> CoinNode(1)]
    /\ node_cache = [c \in Coins |-> NoAdapter]

\* ------------------------------------------------------------------ state machine
InitBalances ==
    [k \in Users \X Coins |->
        IF k \in {<<1, QUOTE>>, <<2, BASE>>, <<3, QUOTE>>}
        THEN [exists |-> TRUE, available |-> InitFunds, locked |-> 0,
              total |-> InitFunds]
        ELSE NoBalance]

InitLedger ==
    /\ balances = InitBalances
    /\ orders = <<>>
    /\ trades = <<>>
    /\ fees = <<>>
    /\ feePool = [c \in Coins |-> NoFeeBalance]
    /\ transactions = <<>>
    /\ syncState = [c \in Coins |-> NULL]
    /\ conf = [t \in ChainTxids |-> 0]
    /\ chainOut = <<>>
    /\ wd = Idle
    /\ txn = <<>>
    /\ lease = 0
    /\ count = [withdraw |-> 0, sync |-> 0, feew |-> 0]
    /\ last = [op |-> "init", err |-> "", msg |-> ""]

Init ==
    /\ AdminInit
    /\ InitLedger
    /\ feeRate \in FeeRates

Install(db) ==
    /\ balances' = db.bal
    /\ orders' = db.ord
    /\ trades' = db.trades
    /\ fees' = db.fees
    /\ feePool' = db.pool

Outcome(op, err, msg) == [op |-> op, err |-> err, msg |-> msg]

\* POST /order
PlaceOrder ==
    \E u \in Traders, side \in Sides, p \in Prices, a \in Amounts :
        /\ wd.pc = "idle"
        /\ Len(orders) < MaxOrders
        /\ LET r == place_order(Ledger, feeRate, u, side, p, a) IN
           /\ Install(r.db)
           /\ last' = Outcome("place_order", r.err, "")
        /\ UNCHANGED <<transactions, syncState, feeRate, adminVars, conf, chainOut, wd,
                       txn, lease, count>>

\* POST /cancel_order
CancelOrder ==
    \E u \in Traders, oid \in 1..MaxOrders :
        /\ wd.pc = "idle"
        /\ LET r == cancel_order(Ledger, u, oid) IN
           /\ Install(r.db)
           /\ last' = Outcome("cancel_order", r.err, "")
        /\ UNCHANGED <<transactions, syncState, feeRate, adminVars, conf, chainOut, wd,
                       txn, lease, count>>

\* POST /admin/fees
WithdrawFees ==
    \E c \in Coins, a \in Amounts :
        /\ wd.pc = "idle"
        /\ count.feew < MaxFeeWithdrawals
        /\ LET r == withdraw_fees(feePool, c, a) IN
           /\ feePool' = r.pool
           /\ last' = Outcome("withdraw_fees", r.err, "")
        /\ count' = [count EXCEPT !.feew = @ + 1]
        /\ UNCHANGED <<balances, orders, trades, fees, transactions, syncState,
                       feeRate, adminVars, conf, chainOut, wd, txn, lease>>

\* POST /withdraw, up to the flush that precedes the send.
WithdrawBegin ==
    \E u \in Traders, c \in Coins, a \in Amounts :
        /\ wd.pc = "idle"
        /\ count.withdraw < MaxWithdrawals
        /\ count' = [count EXCEPT !.withdraw = @ + 1]
        /\ LET d == Deduct(balances, u, c, a) IN
           IF d.err # ""
           THEN /\ wd' = Idle
                /\ last' = Outcome("withdraw", d.err, "")
           ELSE /\ wd' = [pc |-> "deducted", user_id |-> u, coin |-> c,
                          amount |-> a, available |-> d.row.available,
                          total |-> d.row.total, txid |-> 0, err |-> "",
                          outcome |-> "", before |-> balances[<<u, c>>],
                          ntx |-> Len(transactions)]
                /\ last' = Outcome("withdraw", "pending", "")
        /\ UNCHANGED <<ledgerVars, feeRate, adminVars, conf, chainOut, txn, lease>>

\* node.send_to_address and the txid check.
NodeSend ==
    \E outcome \in SendOutcomes :
        /\ wd.pc = "deducted"
        /\ LET txid == 100 + Len(chainOut) + 1 IN
           /\ chainOut' = IF NodeAccepted(outcome)
                          THEN Append(chainOut,
                                 [user_id |-> wd.user_id, coin |-> wd.coin,
                                  amount |-> wd.amount, txid |-> txid,
                                  wire |-> WireAmount(wd.coin, wd.amount)])
                          ELSE chainOut
           /\ wd' = IF SendSucceeded(outcome)
                    THEN [wd EXCEPT !.pc = "dispatched", !.txid = txid,
                                    !.outcome = outcome]
                    ELSE [wd EXCEPT !.pc = "failed", !.err = outcome,
                                    !.outcome = outcome]
        /\ UNCHANGED <<ledgerVars, feeRate, adminVars, conf, txn, lease, count, last>>

\* db.add(new_tx); db.commit(): the UPDATE writes the changed columns of the
\* balance row.  The insert or the commit may fail.
WithdrawRecord ==
    \E commit_ok \in BOOLEAN :
        /\ wd.pc = "dispatched"
        /\ IF commit_ok /\ ~TxExists(transactions, wd.txid)
           THEN /\ balances' = [balances EXCEPT
                       ![<<wd.user_id, wd.coin>>].available = wd.available,
                       ![<<wd.user_id, wd.coin>>].total = wd.total]
                /\ transactions' = Append(transactions,
                       SentRow(wd.user_id, wd.txid, wd.amount, wd.coin))
                /\ wd' = Idle
                /\ last' = Outcome("withdraw", "", "")
           ELSE /\ wd' = [wd EXCEPT !.pc = "failed", !.err = "commit_failed"]
                /\ UNCHANGED <<balances, transactions, last>>
        /\ UNCHANGED <<orders, trades, fees, feePool, syncState, feeRate, adminVars, conf,
                       chainOut, txn, lease, count>>

\* except: refund the session's row, flush, roll back, raise.
WithdrawRefund ==
    /\ wd.pc = "failed"
    /\ wd' = Idle
    /\ last' = Outcome("withdraw", "withdrawal_failed", FailureMessage(wd.err))
    /\ UNCHANGED <<ledgerVars, feeRate, adminVars, conf, chainOut, txn, lease, count>>

\* One run of sync_balances; up is the set of coins whose node answers.
SyncRun(up) ==
    /\ wd.pc = "idle"
    /\ LET r == sync_balances([bal |-> balances, txs |-> transactions,
                               cur |-> syncState], conf, up) IN
       /\ balances' = r.bal
       /\ transactions' = r.txs
       /\ syncState' = r.cur
    /\ last' = Outcome("sync", IF up = Coins THEN "" ELSE "node_failed", "")
    /\ UNCHANGED <<orders, trades, fees, feePool, feeRate, adminVars, conf, chainOut,
                   wd, txn, lease>>

SyncPass ==
    \E up \in SUBSET Coins :
        /\ count.sync < MaxSyncs
        /\ count' = [count EXCEPT !.sync = @ + 1]
        /\ SyncRun(up)

\* The periodic task, run for ever.
SyncAlways ==
    \E up \in SUBSET Coins : SyncRun(up) /\ UNCHANGED count

\* The chain: a transfer is mined, or gains a confirmation.
Confirm ==
    \E t \in ChainTxids :
        /\ conf[t] < MIN_CONFIRMATIONS
        /\ conf' = [conf EXCEPT ![t] = @ + 1]
        /\ UNCHANGED <<ledgerVars, feeRate, adminVars, chainOut, wd, txn, lease, count, last>>

\* ---- two order requests in flight on one market (tests.py concurrency_test)
Buyers == {1, 3}
Seller == 2

EmptyLedger ==
    [bal |-> InitBalances, ord |-> <<>>, trades |-> <<>>, fees |-> <<>>,
     pool |-> [c \in Coins |-> NoFeeBalance]]

\* The seller's order rests on the book; both buyers are about to send the
\* same buy.
ConcInit ==
    /\ AdminInit
    /\ feeRate \in FeeRates
    /\ \E n \in Amounts, ps \in Prices, pb \in Prices, a \in Amounts :
          /\ pb >= ps
          /\ LET db == place_order(EmptyLedger, feeRate, Seller, "sell",
                                   ps, n).db IN
             /\ balances = db.bal
             /\ orders = db.ord
             /\ trades = db.trades
             /\ fees = db.fees
             /\ feePool = db.pool
          /\ txn = [t \in Buyers |->
                      [pc |-> "start", price |-> pb, amount |-> a, err |-> "",
                       oid |-> 0, row |-> NoBalance, read |-> <<>>,
                       res |-> <<>>]]
    /\ transactions = <<>>
    /\ syncState = [c \in Coins |-> NULL]
    /\ conf = [t \in ChainTxids |-> 0]
    /\ chainOut = <<>>
    /\ wd = Idle
    /\ lease = 0
    /\ count = [withdraw |-> 0, sync |-> 0, feew |-> 0]
    /\ last = [op |-> "init", err |-> "", msg |-> ""]

\* Variant without the market lock: the matcher never waits.
LeaseFree_NoLock(l) == TRUE

\* SELECT pg_advisory_xact_lock(:mid) returns when no other transaction
\* holds the market's lock.
LeaseFree(l) == l = 0

\* place_order up to db.flush() of the new order: the reserve and the new
\* row are written but not committed, so other transactions do not see them.
TxReserve(t) ==
    /\ txn[t].pc = "start"
    /\ LET r == reserve_funds(OpenSession(Ledger), t, "buy", txn[t].price,
                              txn[t].amount)
           oid == Len(orders) + 1
       IN IF r.err # ""
          THEN /\ txn' = [txn EXCEPT ![t].pc = "done", ![t].err = r.err]
               /\ UNCHANGED orders
          ELSE /\ orders' = Append(orders, [r.S.ord[oid] EXCEPT
                                              !.status = "uncommitted"])
               /\ txn' = [txn EXCEPT ![t].pc = "reserved", ![t].oid = oid,
                                     ![t].row = r.S.bal[<<t, QUOTE>>]]
    /\ UNCHANGED <<balances, trades, fees, feePool, transactions, syncState,
                   feeRate, adminVars, conf, chainOut, wd, lease, count, last>>

\* match_orders in the request's transaction: take the lock, read the
\* committed tables plus the request's own writes, run the loops.
TxMatch(t) ==
    /\ txn[t].pc = "reserved"
    /\ LeaseFree(lease)
    /\ lease' = t
    /\ LET S0 == OpenSession(Ledger)
           S1 == [S0 EXCEPT !.bal[<<t, QUOTE>>] = txn[t].row,
                            !.ord[txn[t].oid].status = "open"]
       IN txn' = [txn EXCEPT ![t].pc = "matched", ![t].read = Ledger,
                             ![t].res = CommitSession(match_orders(S1, feeRate))]
    /\ UNCHANGED <<ledgerVars, feeRate, adminVars, conf, chainOut, wd, count, last>>

\* The UPDATE of one row: only the columns the session changed are written.
WriteChanged(row, rd, res) ==
    [f \in DOMAIN row |-> IF res[f] # rd[f] THEN res[f] ELSE row[f]]

\* commit: the columns the transaction changed are written, its new rows
\* are inserted, and the market's lock is released.
TxCommit(t) ==
    /\ txn[t].pc = "matched"
    /\ LET rd == txn[t].read
           res == txn[t].res
       IN /\ balances' = [k \in DOMAIN balances |->
                            WriteChanged(balances[k], rd.bal[k], res.bal[k])]
          /\ orders' = [i \in DOMAIN orders |->
                          IF i <= Len(rd.ord)
                          THEN WriteChanged(orders[i], rd.ord[i], res.ord[i])
                          ELSE orders[i]]
          /\ trades' = trades \o SubSeq(res.trades, Len(rd.trades) + 1,
                                        Len(res.trades))
          /\ fees' = fees \o SubSeq(res.fees, Len(rd.fees) + 1, Len(res.fees))
          /\ feePool' = [c \in Coins |->
                           WriteChanged(feePool[c], rd.pool[c], res.pool[c])]
    /\ lease' = IF lease = t THEN 0 ELSE lease
    /\ txn' = [txn EXCEPT ![t].pc = "done"]
    /\ UNCHANGED <<transactions, syncState, feeRate, adminVars, conf, chainOut, wd,
                   count, last>>

Reserve == \E t \in Buyers : TxReserve(t)
Match == \E t \in Buyers : TxMatch(t)
Commit == \E t \in Buyers : TxCommit(t)

\* The trading core: orders, matching and cancels.
Next ==
    \/ PlaceOrder
    \/ CancelOrder

Spec == Init /\ [][Next]_vars

\* Custody: withdrawals and deposit sync against the coin nodes.
CustodyNext ==
    \/ WithdrawBegin
    \/ NodeSend
    \/ WithdrawRecord
    \/ WithdrawRefund
    \/ SyncPass
    \/ Confirm

SpecCustody == Init /\ [][CustodyNext]_vars

\* Order requests in flight while the owners of resting orders cancel.
RaceNext ==
    \/ Reserve
    \/ Match
    \/ Commit
    \/ CancelOrder

SpecRace == ConcInit /\ [][RaceNext]_vars

\* The trading core on a market whose fee_rate column holds zero or null,
\* with orders large enough for a fee of 0.001 to reach a whole quantum.
LargeFunds == 4000
LargeAmounts == {1000, 2000}

LargeBalances ==
    [k \in Users \X Coins |->
        IF k \in {<<1, QUOTE>>, <<2, BASE>>, <<3, QUOTE>>}
        THEN [exists |-> TRUE, available |-> LargeFunds, locked |-> 0,
              total |-> LargeFunds]
        ELSE NoBalance]

FeeColumnInit ==
    /\ AdminInit
    /\ balances = LargeBalances
    /\ orders = <<>>
    /\ trades = <<>>
    /\ fees = <<>>
    /\ feePool = [c \in Coins |-> NoFeeBalance]
    /\ transactions = <<>>
    /\ syncState = [c \in Coins |-> NULL]
    /\ conf = [t \in ChainTxids |-> 0]
    /\ chainOut = <<>>
    /\ wd = Idle
    /\ txn = <<>>
    /\ lease = 0
    /\ count = [withdraw |-> 0, sync |-> 0, feew |-> 0]
    /\ last = [op |-> "init", err |-> "", msg |-> ""]
    /\ feeRate \in {0, NULL}

\* POST /order with a large amount
PlaceLargeOrder ==
    \E u \in Traders, side \in Sides, p \in Prices, a \in LargeAmounts :
        /\ wd.pc = "idle"
        /\ Len(orders) < MaxOrders
        /\ LET r == place_order(Ledger, feeRate, u, side, p, a) IN
           /\ Install(r.db)
           /\ last' = Outcome("place_order", r.err, "")
        /\ UNCHANGED <<transactions, syncState, feeRate, adminVars, conf, chainOut, wd,
                       txn, lease, count>>

FeeColumnNext ==
    \/ PlaceLargeOrder
    \/ CancelOrder

SpecFeeColumn == FeeColumnInit /\ [][FeeColumnNext]_vars

\* The trading core at one price and the default fee rate, with a book one
\* order deeper than in Spec.
MaxBookOrders == 4
ParPrice == 1

BookInit ==
    /\ AdminInit
    /\ InitLedger
    /\ feeRate = NULL

\* POST /order at the par price, while the book holds fewer than max orders
PlaceAtParUpTo(max) ==
    \E u \in Traders, side \in Sides, a \in Amounts :
        /\ wd.pc = "idle"
        /\ Len(orders) < max
        /\ LET r == place_order(Ledger, feeRate, u, side, ParPrice, a) IN
           /\ Install(r.db)
           /\ last' = Outcome("place_order", r.err, "")
        /\ UNCHANGED <<transactions, syncState, feeRate, adminVars, conf, chainOut, wd,
                       txn, lease, count>>

PlaceAtPar == PlaceAtParUpTo(MaxBookOrders)

BookNext ==
    \/ PlaceAtPar
    \/ CancelOrder

SpecBook == BookInit /\ [][BookNext]_vars

\* The trading core with a clock that need not advance between two orders:
\* created_at is utc_now() at the insert, and two requests can read the same
\* microsecond.
LastStamp == IF orders = <<>> THEN 0 ELSE orders[Len(orders)].created_at

\* POST /order
PlaceTied ==
    \E u \in Traders, side \in Sides, a \in Amounts,
       now \in {LastStamp, LastStamp + 1} :
        /\ wd.pc = "idle"
        /\ Len(orders) < MaxOrders
        /\ now > 0
        /\ LET r == reserve_funds_at(OpenSession(Ledger), u, side, ParPrice,
                                     a, now)
           IN IF r.err # ""
              THEN /\ UNCHANGED <<balances, orders, trades, fees, feePool>>
                   /\ last' = Outcome("place_order", r.err, "")
              ELSE \E buys \in QueryBuys(r.S.ord),
                      sells \in QuerySells(r.S.ord) :
                       /\ Install(CommitSession(
                             match_rows(r.S, buys, sells, feeRate)))
                       /\ last' = Outcome("place_order", "", "")
        /\ UNCHANGED <<transactions, syncState, feeRate, adminVars, conf, chainOut, wd,
                       txn, lease, count>>

TiesNext ==
    \/ PlaceTied
    \/ CancelOrder

SpecTies == BookInit /\ [][TiesNext]_vars

\* The book at the par price with cancel requests that keep what was asked
\* (the caller and the order id) next to the outcome.
PlaceAtParShallow == PlaceAtParUpTo(MaxOrders)

CancelRequest ==
    \E u \in Traders, oid \in 1..MaxOrders :
        /\ wd.pc = "idle"
        /\ LET r == cancel_order(Ledger, u, oid) IN
           /\ Install(r.db)
           /\ last' = [op |-> "cancel_request", err |-> r.err, msg |-> "",
                       user_id |-> u, order_id |-> oid]
        /\ UNCHANGED <<transactions, syncState, feeRate, adminVars, conf, chainOut, wd,
                       txn, lease, count>>

CancelNext ==
    \/ PlaceAtParShallow
    \/ CancelRequest

SpecCancel == BookInit /\ [][CancelNext]_vars

\* Two order requests of counterparties with their locks: user 1 buys
\* against the resting sell of user 2 while user 2 places a second sell.
\* A transaction's rows are the balance rows whose row lock it holds.
Lockers == {1, 2}

LockSide(t) == IF t = Seller THEN "sell" ELSE "buy"

LockInit ==
    /\ AdminInit
    /\ feeRate \in FeeRates
    /\ \E n \in Amounts, ps \in Prices, pb \in Prices, a \in Amounts :
          /\ pb >= ps
          /\ LET db == place_order(EmptyLedger, feeRate, Seller, "sell",
                                   ps, n).db IN
             /\ balances = db.bal
             /\ orders = db.ord
             /\ trades = db.trades
             /\ fees = db.fees
             /\ feePool = db.pool
          /\ txn = [t \in Lockers |->
                      [pc |-> "start", side |-> LockSide(t), price |-> pb,
                       amount |-> a, err |-> "", oid |-> 0, row |-> NoBalance,
                       rows |-> {}, read |-> <<>>, res |-> <<>>]]
    /\ transactions = <<>>
    /\ syncState = [c \in Coins |-> NULL]
    /\ conf = [t \in ChainTxids |-> 0]
    /\ chainOut = <<>>
    /\ wd = Idle
    /\ lease = 0
    /\ count = [withdraw |-> 0, sync |-> 0, feew |-> 0]
    /\ last = [op |-> "init", err |-> "", msg |-> ""]

\* The row place_order reads with_for_update.
OwnRow(t) == <<t, ReserveCoin(txn[t].side)>>

\* No other transaction holds the row lock of k.
RowFree(k, t) == \A u \in Lockers \ {t} : k \notin txn[u].rows

\* The balance rows the matching pass of t changed: the rows its flush
\* updates.
Dirty(t) ==
    {k \in DOMAIN balances : txn[t].res.bal[k] # txn[t].read.bal[k]}

\* place_order up to db.flush() of the new order; the SELECT ... FOR UPDATE
\* waits while another transaction holds the row.
LkReserve(t) ==
    /\ txn[t].pc = "start"
    /\ RowFree(OwnRow(t), t)
    /\ LET r == reserve_funds(OpenSession(Ledger), t, txn[t].side,
                              txn[t].price, txn[t].amount)
           oid == Len(orders) + 1
       IN IF r.err # ""
          THEN /\ txn' = [txn EXCEPT ![t].pc = "done", ![t].err = r.err]
               /\ UNCHANGED orders
          ELSE /\ orders' = Append(orders, [r.S.ord[oid] EXCEPT
                                              !.status = "uncommitted"])
               /\ txn' = [txn EXCEPT ![t].pc = "reserved", ![t].oid = oid,
                                     ![t].row = r.S.bal[OwnRow(t)],
                                     ![t].rows = {OwnRow(t)}]
    /\ UNCHANGED <<balances, trades, fees, feePool, transactions, syncState,
                   feeRate, adminVars, conf, chainOut, wd, lease, count, last>>

\* match_orders: take the market's lock, read the orders and (through
\* get_or_create_balance, a plain SELECT) the balance rows, run the loops.
LkMatch(t) ==
    /\ txn[t].pc = "reserved"
    /\ LeaseFree(lease)
    /\ lease' = t
    /\ LET S0 == OpenSession(Ledger)
           S1 == [S0 EXCEPT !.bal[OwnRow(t)] = txn[t].row,
                            !.ord[txn[t].oid].status = "open"]
       IN txn' = [txn EXCEPT ![t].pc = "matched", ![t].read = Ledger,
                             ![t].res = CommitSession(match_orders(S1, feeRate))]
    /\ UNCHANGED <<ledgerVars, feeRate, adminVars, conf, chainOut, wd, count, last>>

\* db.flush(): the UPDATE of each changed balance row takes its row lock
\* and waits while another transaction holds it.
LkFlush(t) ==
    /\ txn[t].pc = "matched"
    /\ \A k \in Dirty(t) : RowFree(k, t)
    /\ txn' = [txn EXCEPT ![t].pc = "flushed", ![t].rows = @ \cup Dirty(t)]
    /\ UNCHANGED <<ledgerVars, feeRate, adminVars, conf, chainOut, wd, lease, count, last>>

\* commit: the written columns become visible; row locks and the market's
\* lock are released.
LkCommit(t) ==
    /\ txn[t].pc = "flushed"
    /\ LET rd == txn[t].read
           res == txn[t].res
       IN /\ balances' = [k \in DOMAIN balances |->
                            WriteChanged(balances[k], rd.bal[k], res.bal[k])]
          /\ orders' = [i \in DOMAIN orders |->
                          IF i <= Len(rd.ord)
                          THEN WriteChanged(orders[i], rd.ord[i], res.ord[i])
                          ELSE orders[i]]
          /\ trades' = trades \o SubSeq(res.trades, Len(rd.trades) + 1,
                                        Len(res.trades))
          /\ fees' = fees \o SubSeq(res.fees, Len(rd.fees) + 1, Len(res.fees))
          /\ feePool' = [c \in Coins |->
                           WriteChanged(feePool[c], rd.pool[c], res.pool[c])]
    /\ lease' = IF lease = t THEN 0 ELSE lease
    /\ txn' = [txn EXCEPT ![t].pc = "done", ![t].rows = {}]
    /\ UNCHANGED <<transactions, syncState, feeRate, adminVars, conf, chainOut, wd,
                   count, last>>

\* Transaction t waits for a lock that transaction u holds.
WaitsFor(t, u) ==
    /\ t # u
    /\ \/ txn[t].pc = "start" /\ OwnRow(t) \in txn[u].rows
       \/ txn[t].pc = "reserved" /\ lease = u
       \/ txn[t].pc = "matched" /\ Dirty(t) \cap txn[u].rows # {}

\* The database's deadlock detector ends a cyclic wait by aborting one of
\* the transactions: its work is rolled back (the order id it drew from the
\* sequence is not reused) and its request fails.
LkAbort(t) ==
    /\ \E u \in Lockers : WaitsFor(t, u) /\ WaitsFor(u, t)
    /\ txn' = [txn EXCEPT ![t].pc = "done", ![t].err = "deadlock_detected",
                          ![t].rows = {}]
    /\ orders' = [orders EXCEPT ![txn[t].oid].status = "rolled_back"]
    /\ lease' = IF lease = t THEN 0 ELSE lease
    /\ UNCHANGED <<balances, trades, fees, feePool, transactions, syncState,
                   feeRate, adminVars, conf, chainOut, wd, count, last>>

LockReserve == \E t \in Lockers : LkReserve(t)
LockMatch == \E t \in Lockers : LkMatch(t)
LockFlush == \E t \in Lockers : LkFlush(t)
LockCommit == \E t \in Lockers : LkCommit(t)
LockAbort == \E t \in Lockers : LkAbort(t)

LockNext ==
    \/ LockReserve
    \/ LockMatch
    \/ LockFlush
    \/ LockCommit
    \/ LockAbort

SpecLocks == LockInit /\ [][LockNext]_vars

\* Fee credits against a fee withdrawal: after an earlier trade has put
\* fees in the pools, the two buyers send their buys against a resting sell
\* while the administrator withdraws fees.  The administrator's request is
\* transaction Admin; pool0 is the fee-pool table when the requests begin.
Admin == 0

FeeRaceInit ==
    /\ AdminInit
    /\ feeRate \in FeeRates
    /\ \E n \in Amounts, ps \in Prices, pb \in Prices, a \in Amounts :
          /\ pb >= ps
          /\ LET db0 == place_order(EmptyLedger, feeRate, Seller, "sell",
                                    2, 2).db
                 db1 == place_order(db0, feeRate, 1, "buy", 2, 2).db
                 db == place_order(db1, feeRate, Seller, "sell", ps, n).db
             IN
             /\ balances = db.bal
             /\ orders = db.ord
             /\ trades = db.trades
             /\ fees = db.fees
             /\ feePool = db.pool
             /\ txn = [t \in Buyers \cup {Admin} |->
                         IF t = Admin
                         THEN [pc |-> "start", coin |-> BASE, amount |-> 0,
                               new |-> 0, err |-> "", pool0 |-> db.pool]
                         ELSE [pc |-> "start", price |-> pb, amount |-> a,
                               err |-> "", oid |-> 0, row |-> NoBalance,
                               read |-> <<>>, res |-> <<>>]]
    /\ transactions = <<>>
    /\ syncState = [c \in Coins |-> NULL]
    /\ conf = [t \in ChainTxids |-> 0]
    /\ chainOut = <<>>
    /\ wd = Idle
    /\ lease = 0
    /\ count = [withdraw |-> 0, sync |-> 0, feew |-> 0]
    /\ last = [op |-> "init", err |-> "", msg |-> ""]

\* withdraw_fees up to fb.amount -= amount: the row is read by a plain
\* query and checked; new is the amount the commit will store.
FeeRead ==
    \E c \in Coins, a \in Amounts :
        /\ txn[Admin].pc = "start"
        /\ LET r == withdraw_fees(feePool, c, a) IN
           txn' = [txn EXCEPT
                     ![Admin].pc = IF r.err = "" THEN "checked" ELSE "done",
                     ![Admin].coin = c,
                     ![Admin].amount = a,
                     ![Admin].err = r.err,
                     ![Admin].new = r.pool[c].amount]
        /\ UNCHANGED <<ledgerVars, feeRate, adminVars, conf, chainOut, wd, lease, count,
                       last>>

\* db.commit() of withdraw_fees: UPDATE ... SET amount = <the session's value>
FeeCommit ==
    /\ txn[Admin].pc = "checked"
    /\ feePool' = [feePool EXCEPT ![txn[Admin].coin].amount = txn[Admin].new]
    /\ txn' = [txn EXCEPT ![Admin].pc = "done"]
    /\ UNCHANGED <<balances, orders, trades, fees, transactions, syncState,
                   feeRate, adminVars, conf, chainOut, wd, lease, count, last>>

FeeRaceNext ==
    \/ Reserve
    \/ Match
    \/ Commit
    \/ FeeRead
    \/ FeeCommit

SpecFeeRace == FeeRaceInit /\ [][FeeRaceNext]_vars

\* The deposit loop alone: a bounded number of passes over a chain that
\* keeps confirming transfers.
SyncNext ==
    \/ SyncPass
    \/ Confirm

SpecSync == Init /\ [][SyncNext]_vars

\* Two buyers race for one resting sell.
ConcNext ==
    \/ Reserve
    \/ Match
    \/ Commit

SpecConc == ConcInit /\ [][ConcNext]_vars

\* The deposit loop as a periodic task: passes keep running and the nodes
\* answer again and again.
LiveNext ==
    \/ SyncAlways
    \/ Confirm

SpecSyncLive ==
    /\ Init
    /\ [][LiveNext]_vars
    /\ WF_vars(SyncRun(Coins) /\ UNCHANGED count)

\* Every request that moves a user's or the exchange's funds, one request at
\* a time, MaxRequests requests in all.
Started == Len(orders) + count.withdraw + count.feew

FundsNext ==
    \/ /\ Started < MaxRequests
       /\ \/ PlaceOrder
          \/ WithdrawFees
          \/ WithdrawBegin
    \/ CancelOrder
    \/ NodeSend
    \/ WithdrawRecord
    \/ WithdrawRefund

SpecFunds == Init /\ [][FundsNext]_vars

\* ------------------------------------------------------------------ claims
BalanceRowOK(b) ==
    b.exists => /\ b.total = b.available + b.locked
                /\ b.total >= 0 /\ b.available >= 0 /\ b.locked >= 0

\* C1: after every committed operation every balance row has
\* total = available + locked and no negative column.
C1_BalanceInvariant == \A k \in Users \X Coins : BalanceRowOK(balances[k])

RECURSIVE SumTotals(_, _, _)
SumTotals(bal, coin, us) ==
    IF us = {} THEN 0
    ELSE LET u == CHOOSE x \in us : TRUE
         IN bal[<<u, coin>>].total + SumTotals(bal, coin, us \ {u})

\* All the funds of a coin the ledger accounts for: user totals and fee pool.
FundsOf(bal, pool, coin) == SumTotals(bal, coin, Users) + pool[coin].amount

\* C2: matching neither creates nor destroys funds: no order placement (with
\* its matching pass) changes, for any coin, the sum of all user totals plus
\* the fee pool.
C2_MatchingConservesFunds ==
    [][\A c \in Coins :
          FundsOf(balances', feePool', c) = FundsOf(balances, feePool, c)]_vars

Resting(o) == o.status \in {"open", "partially_filled"} /\ o.remaining > 0

\* C3: no resting buy crosses a resting sell (max bid < min ask), whether the
\* resting orders are open or partially filled.
C3_BookNotCrossed ==
    \A i, j \in 1..Len(orders) :
        (/\ orders[i].side = "buy" /\ Resting(orders[i])
         /\ orders[j].side = "sell" /\ Resting(orders[j]))
        => orders[i].price < orders[j].price

\* ------------------------------------------------------------------ concurrency claim
BothDone == \A t \in Buyers : txn[t].pc = "done"

PlainRate == IF feeRate = NULL THEN DefaultFeeRate ELSE feeRate

\* C4: when two identical buys race for one resting sell of size n, one trade
\* happens: one buyer alone holds base, the base delivered is n minus the
\* base fee, the seller is paid once and each fee pool is credited once.
C4_NoDoubleMatch ==
    BothDone =>
        LET n == orders[1].amount
            ps == orders[1].price
            m == Min(n, txn[1].amount)
            base_fee == m * Unit * PlainRate
            quote_fee == ps * m * PlainRate
        IN /\ Len(trades) = 1
           /\ trades[1].amount = m
           /\ Cardinality({t \in Buyers : balances[<<t, BASE>>].available > 0}) = 1
           /\ SumTotals(balances, BASE, Buyers) = RoundQ(ToFine(m) - base_fee)
           /\ balances[<<Seller, QUOTE>>].available =
                 RoundQ(ps * m * RateDen - quote_fee)
           /\ Len(fees) = 2
           /\ feePool[BASE].amount = RoundQ(base_fee)
           /\ feePool[QUOTE].amount = RoundQ(quote_fee)

C4_Witness ==
    /\ BothDone
    /\ Len(trades) = 1
    /\ \E t \in Buyers : /\ balances[<<t, BASE>>].available > 0
                         /\ orders[txn[t].oid].id > 2

\* ------------------------------------------------------------------ balance checks
\* C7: a placement or a withdrawal that needs more than the available
\* balance, or whose balance row is missing, fails with insufficient
\* balance, leaves the ledger as it was and never reaches the coin node.
C7_InsufficientBalanceRejected ==
    /\ [](\A u \in Traders, side \in Sides, p \in Prices, a \in Amounts :
            LET row == balances[<<u, ReserveCoin(side)>>] IN
            (~row.exists \/ ToFine(row.available) < RequiredFor(side, p, a)) =>
               place_order(Ledger, feeRate, u, side, p, a) =
                  [err |-> "insufficient_balance", db |-> Ledger])
    /\ [](\A u \in Traders, c \in Coins, a \in Amounts :
            (~balances[<<u, c>>].exists \/ balances[<<u, c>>].available < a) =>
               Deduct(balances, u, c, a).err = "insufficient_balance")
    /\ [][last'.err = "insufficient_balance" =>
            /\ UNCHANGED ledgerVars
            /\ UNCHANGED chainOut
            /\ wd' = Idle]_vars

C7_Witness ==
    /\ last.err = "insufficient_balance"
    /\ last.op = "withdraw"
    /\ \E k \in Traders \X Coins : balances[k].exists /\ balances[k].locked > 0

\* ------------------------------------------------------------------ custody claims
RECURSIVE SumSeq(_, _)
SumSeq(f, n) == IF n = 0 THEN 0 ELSE f[n] + SumSeq(f, n - 1)

\* Amounts the chain accepted from, and the ledger recorded as received by,
\* one (user, coin).
SentOnChain(k) ==
    SumSeq([i \in 1..Len(chainOut) |->
              IF <<chainOut[i].user_id, chainOut[i].coin>> = k
              THEN chainOut[i].amount ELSE 0], Len(chainOut))

ReceivedRows(k) ==
    SumSeq([i \in 1..Len(transactions) |->
              IF /\ <<transactions[i].user_id, transactions[i].coin_symbol>> = k
                 /\ transactions[i].direction = "received"
              THEN transactions[i].amount ELSE 0], Len(transactions))

\* C5: once a withdrawal has ended, every send a coin node accepted has its
\* sent Transaction row and its debit committed, whatever happened after the
\* send.
C5_AcceptedSendIsDebited ==
    wd.pc = "idle" =>
        /\ \A i \in 1..Len(chainOut) :
              \E j \in 1..Len(transactions) :
                 transactions[j] = SentRow(chainOut[i].user_id, chainOut[i].txid,
                                           chainOut[i].amount, chainOut[i].coin)
        /\ \A k \in Users \X Coins :
              balances[k].total =
                 InitBalances[k].total + ReceivedRows(k) - SentOnChain(k)

WithdrawalEnds == wd.pc # "idle" /\ wd'.pc = "idle"

AdapterFailures == {"reply_lost", "rpc_error", "no_txid"}

\* C6: a withdrawal whose adapter call failed or returned no txid leaves the
\* user's row as it was before the request, adds no Transaction row, and
\* reports withdrawal_failed with the adapter's message.
C6_FailedSendRestores ==
    [][(WithdrawalEnds /\ wd.outcome \in AdapterFailures) =>
          /\ balances'[<<wd.user_id, wd.coin>>] = wd.before
          /\ transactions' = transactions
          /\ Len(transactions') = wd.ntx
          /\ last' = Outcome("withdraw", "withdrawal_failed", wd.outcome)]_vars

C6_Witness ==
    /\ last.op = "withdraw" /\ last.err = "withdrawal_failed"
    /\ last.msg \in {"rpc_error", "no_txid"}
    /\ wd.pc = "idle"

\* The session's row while a withdrawal is past its flush: the committed row
\* with available and total reduced by the amount, locked untouched.
Debited(row, amount) ==
    [row EXCEPT !.available = @ - amount, !.total = @ - amount]

\* C8: the debit is flushed before the send, and a withdrawal whose send
\* returned a txid ends with exactly one sent Transaction row committed
\* together with the debit.
C8_DeductDispatchConfirm ==
    /\ [](wd.pc \in {"deducted", "dispatched"} =>
            /\ wd.available = Debited(wd.before, wd.amount).available
            /\ wd.total = Debited(wd.before, wd.amount).total
            /\ balances[<<wd.user_id, wd.coin>>] = wd.before)
    /\ [][chainOut' # chainOut => wd.pc = "deducted"]_vars
    /\ [][(WithdrawalEnds /\ wd.outcome = "txid") =>
            /\ transactions' = Append(transactions,
                   SentRow(wd.user_id, wd.txid, wd.amount, wd.coin))
            /\ balances'[<<wd.user_id, wd.coin>>] =
                   Debited(wd.before, wd.amount)]_vars

\* C9: replaying a sync pass over the same node responses adds no
\* Transaction row and moves no balance.
C9_ReplayIsIdempotent ==
    \A up \in SUBSET Coins :
        LET db == [bal |-> balances, txs |-> transactions, cur |-> syncState]
            once == sync_balances(db, conf, up)
            twice == sync_balances(once, conf, up)
        IN /\ twice.bal = once.bal
           /\ twice.txs = once.txs

C9_Witness ==
    /\ last.op = "sync" /\ count.sync >= 2
    /\ Len(transactions) >= 1
    /\ \E t \in ChainTxids : conf[t] >= MIN_CONFIRMATIONS

\* The user a listed transfer belongs to (0 when the address is not
\* registered).
OwnerOf(i) ==
    LET hits == {a \in 1..Len(Addresses) :
                   /\ Addresses[a].coin_symbol = Receipts[i].coin
                   /\ IF NodeType(Receipts[i].coin) = "monero"
                      THEN Addresses[a].minor = Receipts[i].minor
                      ELSE Addresses[a].address = Receipts[i].address}
    IN IF hits = {} THEN 0 ELSE Addresses[CHOOSE a \in hits : TRUE].user_id

ReceiptAmount(i) ==
    IF NodeType(Receipts[i].coin) = "monero"
    THEN RoundQ(atomic_to_xmr(Receipts[i].amount))
    ELSE Receipts[i].amount

Credited(i) ==
    \E j \in 1..Len(transactions) :
        transactions[j] = ReceivedRow(OwnerOf(i), Receipts[i].txid,
                                      ReceiptAmount(i), Receipts[i].coin)

\* C10: every transfer to a registered address that has MIN_CONFIRMATIONS
\* confirmations is eventually credited to its owner.
C10_ConfirmedDepositCredited ==
    \A i \in 1..Len(Receipts) :
        (OwnerOf(i) # 0 /\ conf[Receipts[i].txid] >= MIN_CONFIRMATIONS)
            ~> Credited(i)

\* ------------------------------------------------------------------ deposit pass claims
\* The received row a pass writes for entry i of Receipts.
RowOf(i) ==
    ReceivedRow(OwnerOf(i), Receipts[i].txid, ReceiptAmount(i),
                Receipts[i].coin)

\* Entry i was credited by the pass that took the table from txs0 to txs1.
CreditedBy(txs0, txs1, i) ==
    \E j \in (Len(txs0) + 1)..Len(txs1) : txs1[j] = RowOf(i)

\* The on-chain id of entry i is recorded by a row other than its own.
IdTaken(txs, i) ==
    \E j \in 1..Len(txs) :
        txs[j].tx_id = Receipts[i].txid /\ txs[j] # RowOf(i)

\* What the entries credited to key k add up to.
CreditsTo(txs0, txs1, k) ==
    SumSeq([i \in 1..Len(Receipts) |->
              IF /\ <<OwnerOf(i), Receipts[i].coin>> = k
                 /\ CreditedBy(txs0, txs1, i)
              THEN ReceiptAmount(i) ELSE 0], Len(Receipts))

\* C11: in one pass for a coin a listed entry is credited exactly when it
\* has MIN_CONFIRMATIONS confirmations, its on-chain id is not recorded and
\* its destination is registered; a credited entry adds its amount to the
\* owner's available and total and one received row, and nothing else
\* changes.
C11_CreditedIffEligible ==
    \A c \in Coins :
        LET db == [bal |-> balances, txs |-> transactions, cur |-> syncState]
            r == sync_coin(db, c, conf)
            listed == {i \in 1..Len(Receipts) :
                         Receipts[i].coin = c /\ conf[Receipts[i].txid] >= 1}
        IN /\ \A i \in listed :
                CreditedBy(db.txs, r.txs, i) <=>
                   /\ conf[Receipts[i].txid] >= MIN_CONFIRMATIONS
                   /\ OwnerOf(i) # 0
                   /\ ~TxExists(db.txs, Receipts[i].txid)
                   /\ ~IdTaken(r.txs, i)
           /\ Len(r.txs) - Len(db.txs) =
                 Cardinality({i \in listed : CreditedBy(db.txs, r.txs, i)})
           /\ \A k \in Users \X Coins :
                /\ r.bal[k].total =
                      db.bal[k].total + CreditsTo(db.txs, r.txs, k)
                /\ r.bal[k].available =
                      db.bal[k].available + CreditsTo(db.txs, r.txs, k)
                /\ r.bal[k].locked = db.bal[k].locked

\* What the tables hold for one coin.
CoinView(d, c) ==
    LET OfCoin(t) == t.coin_symbol = c IN
    [bal |-> [u \in Users |-> d.bal[<<u, c>>]],
     txs |-> SelectSeq(d.txs, OfCoin),
     cur |-> d.cur[c]]

\* Position in SyncOrder of the first coin whose node fails, 0 when none.
FirstFailed(up) ==
    LET bad == {i \in 1..Len(SyncOrder) : SyncOrder[i] \notin up} IN
    IF bad = {} THEN 0 ELSE CHOOSE i \in bad : \A j \in bad : i <= j

\* C12: a coin whose pass fails keeps its balances, Transaction rows and
\* cursor as they were stored; a coin whose pass succeeds gets its credits,
\* rows and cursor advance in one commit.
C12_FailedPassCommitsNothing ==
    \A up \in SUBSET Coins :
        LET db == [bal |-> balances, txs |-> transactions, cur |-> syncState]
            r == sync_balances(db, conf, up)
            f == FirstFailed(up)
        IN \A i \in 1..Len(SyncOrder) :
              LET c == SyncOrder[i] IN
              /\ (f # 0 /\ i >= f) => CoinView(r, c) = CoinView(db, c)
              /\ (f = 0 \/ i < f) =>
                    /\ CoinView(r, c) = CoinView(sync_coin(db, c, conf), c)
                    /\ (CoinView(r, c).cur # CoinView(db, c).cur
                          => Len(CoinView(r, c).txs) > Len(CoinView(db, c).txs))
                    /\ (CoinView(r, c).bal # CoinView(db, c).bal
                          <=> Len(CoinView(r, c).txs) > Len(CoinView(db, c).txs))

\* A pass has failed on a coin that had a transfer ready to be credited.
C12_Witness ==
    /\ last.op = "sync" /\ last.err = "node_failed"
    /\ TxExists(transactions, 11)
    /\ conf[22] >= MIN_CONFIRMATIONS
    /\ ~TxExists(transactions, 22)
    /\ syncState[QUOTE] = NULL

\* ------------------------------------------------------------------ order claims
\* C13: every committed order has 0 <= remaining <= amount, is filled exactly
\* when its remaining is 0, and is partially_filled only when
\* 0 < remaining < amount.
C13_OrderRowInvariant ==
    \A i \in 1..Len(orders) :
        /\ 0 <= orders[i].remaining
        /\ orders[i].remaining <= orders[i].amount
        /\ orders[i].status = "filled" <=> orders[i].remaining = 0
        /\ orders[i].status = "partially_filled" =>
              (0 < orders[i].remaining /\ orders[i].remaining < orders[i].amount)

C13_Witness ==
    /\ \E i \in 1..Len(orders) : orders[i].status = "filled"
    /\ \E i \in 1..Len(orders) : orders[i].status = "partially_filled"
    /\ \E i \in 1..Len(orders) : orders[i].status = "cancelled"

\* The declared status graph; a new row appears as open or already matched.
DagStep(a, b) ==
    \/ a = b
    \/ a = "uncommitted" /\ b \in {"open", "partially_filled", "filled"}
    \/ a = "open" /\ b \in {"partially_filled", "filled", "cancelled"}
    \/ a = "partially_filled" /\ b \in {"filled", "cancelled"}

\* C14: an order's status moves only along the declared graph, and no step
\* changes the status or the remaining of a filled or cancelled order,
\* however cancels and matching passes interleave.
C14_StatusFollowsDag ==
    [][\A i \in 1..Len(orders) :
          /\ DagStep(orders[i].status, orders'[i].status)
          /\ orders[i].status \in {"filled", "cancelled"} =>
                orders'[i].remaining = orders[i].remaining]_vars

\* Orders x and y are on opposite sides at prices that can trade.
Crosses(x, y) ==
    \/ x.side = "buy" /\ y.side = "sell" /\ x.price >= y.price
    \/ x.side = "sell" /\ y.side = "buy" /\ y.price >= x.price

\* C15: when an order is placed, every partially filled resting order with
\* remaining > 0 that it crosses takes part in the matching pass: it trades,
\* unless the new order is used up by the pass.
C15_PartiallyFilledStillMatches ==
    [][Len(orders') = Len(orders) + 1 =>
          \A i \in 1..Len(orders) :
              (/\ orders[i].status = "partially_filled"
               /\ orders[i].remaining > 0
               /\ Crosses(orders[i], orders'[Len(orders')])) =>
                  \/ orders'[i].remaining < orders[i].remaining
                  \/ orders'[Len(orders')].remaining = 0]_vars

\* ------------------------------------------------------------------ trade claims
\* The trades a step adds.
NewTrades == (Len(trades) + 1)..Len(trades')

\* C16: every trade executes at the price of the order of its pair that was
\* placed first (the maker), whether that order is the sell or the buy.
C16_TradeAtMakerPrice ==
    [][\A j \in NewTrades :
          LET maker == Min(trades'[j].buy_order_id, trades'[j].sell_order_id)
          IN trades'[j].price = orders'[maker].price]_vars

\* A step that commits a new buy order.
PlacesBuy ==
    /\ Len(orders') = Len(orders) + 1
    /\ orders'[Len(orders')].side = "buy"

\* Over the trades a step adds for buy order n: the price improvement, and
\* the sale proceeds of the sells that belong to user u.
Improvement(n) ==
    SumSeq([j \in 1..Len(trades') |->
              IF j \in NewTrades /\ trades'[j].buy_order_id = n
              THEN (orders'[n].price - trades'[j].price)
                      * trades'[j].amount * RateDen
              ELSE 0], Len(trades'))

ProceedsTo(u, n) ==
    SumSeq([j \in 1..Len(trades') |->
              IF /\ j \in NewTrades /\ trades'[j].buy_order_id = n
                 /\ orders'[trades'[j].sell_order_id].user_id = u
              THEN trades'[j].price * trades'[j].amount * RateDen
                      - trades'[j].price * trades'[j].amount * PlainRate
              ELSE 0], Len(trades'))

FilledBelowLimit ==
    /\ Len(orders) = 2
    /\ orders[1].side = "buy" /\ orders[1].status = "filled"
    /\ orders[2].side = "sell" /\ orders[2].price < orders[1].price
    /\ orders[2].user_id # orders[1].user_id

\* C18: after a buy of amount a at p_b is filled completely by a sell at
\* p_s < p_b, the buyer, who started with quote available Q and locked 0,
\* holds available = Q - p_s*a - p_s*a*f, locked = (p_b - p_s)*a and
\* total = available + locked.
C18_BuyerQuoteAfterImprovement ==
    FilledBelowLimit =>
        LET row == balances[<<orders[1].user_id, QUOTE>>]
            a == orders[1].amount
            p_b == orders[1].price
            p_s == orders[2].price
        IN /\ row.available =
                 RoundQ(ToFine(InitFunds) - p_s * a * RateDen
                        - p_s * a * PlainRate)
           /\ row.locked = RoundQ((p_b - p_s) * a * RateDen)
           /\ row.total = row.available + row.locked

\* Sum of F over the trades a step adds.
SumNew(F(_)) ==
    SumSeq([j \in 1..Len(trades') |-> IF j \in NewTrades THEN F(j) ELSE 0],
           Len(trades'))

BuyerOf(j) == orders'[trades'[j].buy_order_id].user_id
SellerOf(j) == orders'[trades'[j].sell_order_id].user_id

\* Exact fees of new trade j, in fine units.
BaseFee(j) == trades'[j].amount * Unit * PlainRate
QuoteFee(j) == trades'[j].price * trades'[j].amount * PlainRate
QuoteVolume(j) == trades'[j].price * trades'[j].amount * RateDen

\* The two Fee rows of new trade j as they are stored.
FeeRowsOf(j) ==
    <<[trade_id |-> j, coin_symbol |-> BASE, amount |-> RoundQ(BaseFee(j))],
      [trade_id |-> j, coin_symbol |-> QUOTE, amount |-> RoundQ(QuoteFee(j))]>>

\* C19: for the trades of a pass at fee rate f, each buyer's base available
\* and total rise by a - a*f per trade and each seller's quote available and
\* total by p*a - p*a*f; every trade records two Fee rows (a*f of base,
\* p*a*f of quote) and both fee pools rise by those amounts.  A new order's
\* own reserve and refund are accounted for on its owner's row; totals are
\* stated for users on one side of the pass only.
C19_TradeSettlement ==
    [][Len(orders') = Len(orders) + 1 =>
        LET new == orders'[Len(orders')]
            SellReserve(u) == IF new.user_id = u /\ new.side = "sell"
                              THEN ToFine(new.amount) ELSE 0
            BuyReserve(u) == IF new.user_id = u /\ new.side = "buy"
                             THEN new.price * new.amount * RateDen ELSE 0
        IN
        /\ \A u \in Users :
             LET Bought(j) == IF BuyerOf(j) = u
                              THEN ToFine(trades'[j].amount) - BaseFee(j) ELSE 0
                 Sold(j) == IF SellerOf(j) = u
                            THEN QuoteVolume(j) - QuoteFee(j) ELSE 0
                 Refund(j) == IF BuyerOf(j) = u
                              THEN (orders'[trades'[j].buy_order_id].price
                                      - trades'[j].price)
                                   * trades'[j].amount * RateDen
                              ELSE 0
                 buys == \E j \in NewTrades : BuyerOf(j) = u
                 sells == \E j \in NewTrades : SellerOf(j) = u
             IN /\ balances'[<<u, BASE>>].available =
                      RoundQ(ToFine(balances[<<u, BASE>>].available)
                             - SellReserve(u) + SumNew(Bought))
                /\ (buys /\ ~sells) =>
                      balances'[<<u, BASE>>].total =
                         RoundQ(ToFine(balances[<<u, BASE>>].total)
                                + SumNew(Bought))
                /\ balances'[<<u, QUOTE>>].available =
                      RoundQ(ToFine(balances[<<u, QUOTE>>].available)
                             - BuyReserve(u) + SumNew(Refund) + SumNew(Sold))
                /\ (sells /\ ~buys) =>
                      balances'[<<u, QUOTE>>].total =
                         RoundQ(ToFine(balances[<<u, QUOTE>>].total)
                                + SumNew(Sold))
        /\ Len(fees') = Len(fees) + 2 * Cardinality(NewTrades)
        /\ \A j \in NewTrades :
             SubSeq(fees', 2 * j - 1, 2 * j) = FeeRowsOf(j)
        /\ feePool'[BASE].amount =
              RoundQ(ToFine(feePool[BASE].amount) + SumNew(BaseFee))
        /\ feePool'[QUOTE].amount =
              RoundQ(ToFine(feePool[QUOTE].amount) + SumNew(QuoteFee))]_vars

\* C20: on a market whose fee_rate is zero a trade charges nothing: both Fee
\* rows are 0, the fee pools do not move and all the base traded reaches the
\* buyers; the fallback rate applies only when fee_rate is null.
C20_ZeroFeeMarket ==
    [][\A j \in NewTrades :
          IF feeRate = 0
          THEN /\ fees'[2 * j - 1].amount = 0
               /\ fees'[2 * j].amount = 0
               /\ \A c \in Coins : feePool'[c].amount = feePool[c].amount
               /\ SumTotals(balances', BASE, Users)
                     = SumTotals(balances, BASE, Users)
          ELSE /\ fees'[2 * j - 1].amount
                     = RoundQ(trades'[j].amount * Unit * DefaultFeeRate)
               /\ fees'[2 * j].amount
                     = RoundQ(trades'[j].price * trades'[j].amount
                                * DefaultFeeRate)]_vars

\* ------------------------------------------------------------------ matching walk
\* A step that commits a new order; the new order is row Len(orders').
Places == Len(orders') = Len(orders) + 1

\* The resting orders a step traded against: their remaining fell.
Consumed == {i \in 1..Len(orders) : orders'[i].remaining < orders[i].remaining}

\* C21: an incoming order is matched in its pass against the resting opposite
\* orders until it is filled or no resting order that crosses it has anything
\* left; every trade of the pass is with the incoming order, one trade per
\* resting order consumed.
C21_MatchedUntilFilledOrBookExhausted ==
    [][Places =>
          LET n == Len(orders') IN
          /\ \/ orders'[n].remaining = 0
             \/ \A i \in 1..Len(orders) :
                    ~(Resting(orders'[i]) /\ Crosses(orders'[i], orders'[n]))
          /\ Cardinality(NewTrades) = Cardinality(Consumed)
          /\ \A j \in NewTrades :
                 n \in {trades'[j].buy_order_id, trades'[j].sell_order_id}]_vars

\* What order i had left before the step; a new order starts at its amount.
RemainingBefore(i) ==
    IF i <= Len(orders) THEN orders[i].remaining ELSE orders'[i].amount

\* The new trades of the step up to (not including) trade j that involve
\* order i, and the amount they moved.
EarlierOf(j, i) ==
    {k \in NewTrades :
        k < j /\ i \in {trades'[k].buy_order_id, trades'[k].sell_order_id}}

RECURSIVE SumAmounts(_)
SumAmounts(ks) ==
    IF ks = {} THEN 0
    ELSE LET k == CHOOSE x \in ks : TRUE
         IN trades'[k].amount + SumAmounts(ks \ {k})

LeftAt(j, i) == RemainingBefore(i) - SumAmounts(EarlierOf(j, i))

C23_PriceTimePriority ==
    [][\A j \in NewTrades :
          LET s == trades'[j].sell_order_id IN
          \A e \in 1..Len(orders) :
              (/\ e # s
               /\ orders[e].side = "sell"
               /\ orders[e].price = orders'[s].price
               /\ orders[e].created_at < orders'[s].created_at
               /\ Resting(orders[e]))
                  => orders'[e].remaining = 0]_vars

\* Order e comes before order s in the book by id alone: same side, same
\* price, same creation time, smaller id, and e has never traded.
TiedAhead(e, s) ==
    /\ e < s
    /\ orders[e].side = orders'[s].side
    /\ orders[e].price = orders'[s].price
    /\ orders[e].created_at = orders'[s].created_at
    /\ orders[e].status = "open"
    /\ orders[e].remaining > 0

\* C24: the trades of a pass are fixed by the orders: among orders equal in
\* price and creation time the one with the smaller id is taken first, so an
\* order trades only when every such order ahead of it has been used up.
C24_TiesByOrderId ==
    [][\A j \in NewTrades :
          \A s \in {trades'[j].buy_order_id, trades'[j].sell_order_id} :
              \A e \in 1..Len(orders) :
                  TiedAhead(e, s) => orders'[e].remaining = 0]_vars

\* ------------------------------------------------------------------ cancel claims
\* The orders a step cancels.
Cancelled ==
    {i \in 1..Len(orders) :
        orders[i].status # "cancelled" /\ orders'[i].status = "cancelled"}

\* Order i is the only order of its owner that holds a reservation in the
\* coin it reserves.
OnlyReservation(i) ==
    \A j \in 1..Len(orders) :
        (/\ j # i
         /\ orders[j].user_id = orders[i].user_id
         /\ orders[j].side = orders[i].side)
            => orders[j].status = "cancelled"

\* C25: a cancel moves the order's outstanding reservation (remaining x price
\* of quote for a buy, remaining of base for a sell) from locked to available
\* and leaves total alone; when the cancelled order never traded and is its
\* owner's only reservation in that coin, locked returns to 0.
C25_CancelReleasesReservation ==
    [][\A i \in Cancelled :
          LET o == orders[i]
              k == <<o.user_id, ReserveCoin(o.side)>>
              refund == RequiredFor(o.side, o.price, o.remaining)
          IN /\ ToFine(balances'[k].locked) = ToFine(balances[k].locked) - refund
             /\ ToFine(balances'[k].available)
                   = ToFine(balances[k].available) + refund
             /\ balances'[k].total = balances[k].total
             /\ (o.status = "open" /\ OnlyReservation(i))
                    => balances'[k].locked = 0]_vars

\* C26: a cancel request for an order id that does not exist or belongs to
\* another user fails as not found, one for a filled or cancelled order fails
\* as already terminal, and either leaves every order and balance as it was.
C26_BadCancelChangesNothing ==
    [][last'.op = "cancel_request" =>
          LET u == last'.user_id
              oid == last'.order_id
              missing == ~(oid \in 1..Len(orders))
              foreign == ~missing /\ orders[oid].user_id # u
              terminal == /\ ~missing /\ ~foreign
                          /\ orders[oid].status \in {"filled", "cancelled"}
          IN /\ (missing \/ foreign) => last'.err = "not_found"
             /\ terminal => last'.err = "already_terminal"
             /\ (missing \/ foreign \/ terminal) =>
                    UNCHANGED <<balances, orders, trades, fees, feePool>>]_vars

\* The owner of a filled order has just asked to cancel it and was refused.
C26_Witness ==
    /\ last.op = "cancel_request"
    /\ last.err = "already_terminal"
    /\ orders[last.order_id].status = "filled"
    /\ orders[last.order_id].user_id = last.user_id

\* ------------------------------------------------------------------ reservation
\* C27: a placement that rests without trading has moved exactly price x
\* amount of quote (buy) or amount of base (sell) from the owner's available
\* to locked, has left total alone, and has inserted the order open with
\* remaining = amount.
C27_PlacementReserves ==
    [][(Places /\ NewTrades = {}) =>
          LET o == orders'[Len(orders')]
              k == <<o.user_id, ReserveCoin(o.side)>>
              need == RequiredFor(o.side, o.price, o.amount)
          IN /\ ToFine(balances'[k].available)
                   = ToFine(balances[k].available) - need
             /\ ToFine(balances'[k].locked) = ToFine(balances[k].locked) + need
             /\ balances'[k].total = balances[k].total
             /\ o.remaining = o.amount
             /\ o.status = "open"
             /\ \A j \in DOMAIN balances : j # k => balances'[j] = balances[j]]_vars

\* ------------------------------------------------------------------ lock claims
\* The balance rows transaction t has read in order to change them.
ReadToChange(t) ==
    IF txn[t].pc = "reserved" THEN {OwnRow(t)}
    ELSE IF txn[t].pc \in {"matched", "flushed"} THEN Dirty(t)
    ELSE {}

\* C28: a transaction that changes a balance row holds the row's exclusive
\* lock from before it reads the row's amounts until it ends.
C28_WritersHoldRowLocks ==
    \A t \in Lockers : ReadToChange(t) \subseteq txn[t].rows

\* C29: no two transactions wait for each other on balance row locks and the
\* market's lock, and no request is ended by the database as a deadlock
\* victim.
C29_NoCyclicWait ==
    /\ \A t, u \in Lockers : ~(WaitsFor(t, u) /\ WaitsFor(u, t))
    /\ \A t \in Lockers : txn[t].err # "deadlock_detected"

\* ------------------------------------------------------------------ fee pool
\* The fee a committed order request credited to the pool of coin c.
CreditOf(t, c) ==
    IF txn[t].pc = "done" /\ txn[t].err = ""
    THEN txn[t].res.pool[c].amount - txn[t].read.pool[c].amount
    ELSE 0

\* What a committed fee withdrawal took from the pool of coin c.
WithdrawnOf(c) ==
    IF txn[Admin].pc = "done" /\ txn[Admin].err = "" /\ txn[Admin].coin = c
    THEN txn[Admin].amount
    ELSE 0

AllDone == \A t \in DOMAIN txn : txn[t].pc = "done"

\* C30: a fee pool is never negative, and when the concurrent order requests
\* and the fee withdrawal have all ended each pool holds what it held before
\* plus the fees credited minus what was withdrawn; a withdrawal larger than
\* the pool fails.
C30_FeePoolAccounting ==
    /\ \A c \in Coins : feePool[c].amount >= 0
    /\ (txn[Admin].pc = "done" /\ txn[Admin].err = "") =>
           txn[Admin].new >= 0
    /\ AllDone =>
          \A c \in Coins :
              feePool[c].amount
                 = txn[Admin].pool0[c].amount
                   + CreditOf(1, c) + CreditOf(3, c) - WithdrawnOf(c)

\* ------------------------------------------------------------------ admin_service.py
MaxMarketRequests == 3    \* create-market requests in one behaviour
Symbols == {BASE, QUOTE, "dgb-"}

\* security.validate_coin_symbol: 1 to 10 characters, alphanumeric, upper case.
validate_coin_symbol(symbol) == symbol \in Coins

\* The ids of the rows filter_by(base_coin, quote_coin) returns.
MarketsOf(rows, base_coin, quote_coin) ==
    {i \in DOMAIN rows : /\ rows[i].base_coin = base_coin
                         /\ rows[i].quote_coin = quote_coin}

\* State after resetTables: no market yet.
MarketsInit ==
    /\ InitLedger
    /\ feeRate = NULL
    /\ markets = <<>>
    /\ coin_nodes = [c \in Coins |-> CoinNode(1)]
    /\ node_cache = [c \in Coins |-> NoAdapter]

MarketRequest(pc, base_coin, quote_coin, err, market_id) ==
    [pc |-> pc, base_coin |-> base_coin, quote_coin |-> quote_coin,
     err |-> err, market_id |-> market_id]

\* create_market up to the insert: validation, then the query for an
\* existing market of the pair.  .first() has no ORDER BY: any matching row.
CreateMarketCheck ==
    \E base_coin \in Symbols, quote_coin \in Symbols :
        /\ Len(txn) < MaxMarketRequests
        /\ IF ~validate_coin_symbol(base_coin) \/ ~validate_coin_symbol(quote_coin)
           THEN txn' = Append(txn, MarketRequest("done", base_coin, quote_coin,
                                                 "invalid", NULL))
           ELSE IF base_coin = quote_coin
           THEN txn' = Append(txn, MarketRequest("done", base_coin, quote_coin,
                                                 "same_coin", NULL))
           ELSE IF MarketsOf(markets, base_coin, quote_coin) # {}
           THEN \E existing \in MarketsOf(markets, base_coin, quote_coin) :
                    txn' = Append(txn, MarketRequest("done", base_coin,
                                        quote_coin, "conflict", existing))
           ELSE txn' = Append(txn, MarketRequest("checked", base_coin,
                                                 quote_coin, "", NULL))
        /\ UNCHANGED <<ledgerVars, feeRate, conf, chainOut, wd, lease, count,
                       last, markets, coin_nodes, node_cache>>

\* create_market from the insert to the commit.
CreateMarketInsert ==
    \E t \in DOMAIN txn :
        /\ txn[t].pc = "checked"
        /\ markets' = Append(markets,
                             Market(txn[t].base_coin, txn[t].quote_coin))
        /\ txn' = [txn EXCEPT ![t].pc = "done",
                              ![t].market_id = Len(markets) + 1]
        /\ UNCHANGED <<ledgerVars, feeRate, conf, chainOut, wd, lease, count,
                       last, coin_nodes, node_cache>>

MarketsNext == CreateMarketCheck \/ CreateMarketInsert

SpecMarkets == MarketsInit /\ [][MarketsNext]_vars

\* ------------------------------------------------------------------ markets
SamePair(m, n) == m.base_coin = n.base_coin /\ m.quote_coin = n.quote_coin

\* C31: there is at most one market per (base, quote) pair and none whose
\* base is its quote; a create-market request for an existing pair ends in a
\* conflict that carries the id of the existing market of that pair and has
\* added no row.
C31_OneMarketPerPair ==
    /\ \A i, j \in DOMAIN markets : SamePair(markets[i], markets[j]) => i = j
    /\ \A i \in DOMAIN markets : markets[i].base_coin # markets[i].quote_coin
    /\ \A t \in DOMAIN txn :
          txn[t].err = "conflict" =>
              /\ txn[t].market_id \in DOMAIN markets
              /\ SamePair(markets[txn[t].market_id], txn[t])

\* ------------------------------------------------------------------ coinNodes.py
MaxNodeRequests == 3      \* get_node calls and mutations in one behaviour
EnvNodes == {BASE}        \* coins with <COIN>_NODE_* credentials in the environment
NodeMutations == {"add", "update", "enable", "disable", "delete"}

\* _create_node_from_config: an adapter bound to the row's connection columns.
\* The environment fallback builds one from the environment (rev 0).
ConfigAdapter(config) == [src |-> "db", rev |-> config.rev]
EnvAdapter == [src |-> "env", rev |-> 0]

\* The row get_node's query returns: filter_by(coin_symbol, enabled=True).
EnabledConfig(rows, coin) ==
    IF rows[coin].exists /\ rows[coin].enabled THEN rows[coin] ELSE NoCoinNode

\* What get_node yields when the cache has no entry and it reads config.
LoadNode(config, coin) ==
    IF config.exists THEN [err |-> "", node |-> ConfigAdapter(config)]
    ELSE IF coin \in EnvNodes THEN [err |-> "", node |-> EnvAdapter]
    ELSE [err |-> "missing_credentials", node |-> NoAdapter]

clear_node_cache(cache, coin) == [cache EXCEPT ![coin] = NoAdapter]

\* The connection columns a mutation writes are new ones.
NextRev == 2 + Cardinality({t \in DOMAIN txn : txn[t].op \in NodeMutations})

\* Mutations of coin that have started and not yet returned.
Mutating(coin) ==
    \E t \in DOMAIN txn : /\ txn[t].op \in NodeMutations
                          /\ txn[t].coin = coin
                          /\ txn[t].pc # "done"

\* Mutations of coin that have returned.
Mutated(coin) ==
    \E t \in DOMAIN txn : /\ txn[t].op \in NodeMutations
                          /\ txn[t].coin = coin
                          /\ txn[t].pc = "done"
                          /\ txn[t].err = ""

NodesInit ==
    /\ InitLedger
    /\ feeRate = NULL
    /\ markets = <<Market(BASE, QUOTE)>>
    /\ coin_nodes \in [Coins -> {NoCoinNode, CoinNode(1)}]
    /\ node_cache = [c \in Coins |-> NoAdapter]

\* get_node, lines 27-39: the cache lookup and, on a miss, the query.
\* settled: a mutation of the coin has returned and none is in progress.
GetNodeRead ==
    \E coin \in Coins :
        /\ Len(txn) < MaxNodeRequests
        /\ txn' = Append(txn,
              IF node_cache[coin] # NoAdapter
              THEN [op |-> "get_node", pc |-> "done", coin |-> coin, err |-> "",
                    node |-> node_cache[coin],
                    config |-> EnabledConfig(coin_nodes, coin),
                    settled |-> Mutated(coin) /\ ~Mutating(coin),
                    current |-> TRUE]
              ELSE [op |-> "get_node", pc |-> "read", coin |-> coin, err |-> "",
                    node |-> NoAdapter,
                    config |-> EnabledConfig(coin_nodes, coin),
                    settled |-> Mutated(coin) /\ ~Mutating(coin),
                    current |-> TRUE])
        /\ UNCHANGED <<ledgerVars, feeRate, conf, chainOut, wd, lease, count,
                       last, markets, coin_nodes, node_cache>>

\* get_node, lines 41-68: build the adapter from what was read, cache it.
\* current: the configuration is still the one the call read.
GetNodeStore ==
    \E t \in DOMAIN txn :
        /\ txn[t].op = "get_node"
        /\ txn[t].pc = "read"
        /\ LET r == LoadNode(txn[t].config, txn[t].coin) IN
           /\ node_cache' = IF r.err = ""
                            THEN [node_cache EXCEPT ![txn[t].coin] = r.node]
                            ELSE node_cache
           /\ txn' = [txn EXCEPT ![t].pc = "done", ![t].err = r.err,
                        ![t].node = r.node,
                        ![t].current =
                            EnabledConfig(coin_nodes, txn[t].coin) = txn[t].config]
        /\ UNCHANGED <<ledgerVars, feeRate, conf, chainOut, wd, lease, count,
                       last, markets, coin_nodes>>

\* The service raises ValueError: add of an existing row, any other
\* mutation of a missing one.
MutateRefused(row, kind) == IF kind = "add" THEN row.exists ELSE ~row.exists

\* The row a mutation leaves.
MutateRow(row, kind, rev) ==
    IF kind = "add" THEN CoinNode(rev)
    ELSE IF kind = "update" THEN [row EXCEPT !.rev = rev]
    ELSE IF kind = "enable" THEN [row EXCEPT !.enabled = TRUE]
    ELSE IF kind = "disable" THEN [row EXCEPT !.enabled = FALSE]
    ELSE NoCoinNode

\* add_coin_node, update_coin_node, enable, disable, delete_coin_node up to
\* the commit.
MutateCommit ==
    \E coin \in Coins, kind \in NodeMutations :
        /\ Len(txn) < MaxNodeRequests
        /\ LET row == MutateRow(coin_nodes[coin], kind, NextRev) IN
           IF MutateRefused(coin_nodes[coin], kind)
           THEN /\ txn' = Append(txn, [op |-> kind, pc |-> "done", coin |-> coin,
                                       err |-> "value_error"])
                /\ UNCHANGED coin_nodes
           ELSE /\ txn' = Append(txn, [op |-> kind, pc |-> "committed",
                                       coin |-> coin, err |-> ""])
                /\ coin_nodes' = [coin_nodes EXCEPT ![coin] = row]
        /\ UNCHANGED <<ledgerVars, feeRate, conf, chainOut, wd, lease, count,
                       last, markets, node_cache>>

\* The clear_node_cache call that follows the commit.
MutateClear ==
    \E t \in DOMAIN txn :
        /\ txn[t].op \in NodeMutations
        /\ txn[t].pc = "committed"
        /\ node_cache' = clear_node_cache(node_cache, txn[t].coin)
        /\ txn' = [txn EXCEPT ![t].pc = "done"]
        /\ UNCHANGED <<ledgerVars, feeRate, conf, chainOut, wd, lease, count,
                       last, markets, coin_nodes>>

NodesNext == GetNodeRead \/ GetNodeStore \/ MutateCommit \/ MutateClear

SpecNodes == NodesInit /\ [][NodesNext]_vars

\* ------------------------------------------------------------------ adapter cache
\* C32: a get_node call that starts when a mutation of its coin has returned
\* and none is in progress, and during which the configuration does not
\* change, returns the adapter of the configuration in force (or fails when
\* there is none), never an adapter of a superseded record.
C32_CacheFollowsConfig ==
    \A t \in DOMAIN txn :
        (/\ txn[t].op = "get_node"
         /\ txn[t].pc = "done"
         /\ txn[t].settled
         /\ txn[t].current) =>
            /\ txn[t].err = LoadNode(txn[t].config, txn[t].coin).err
            /\ txn[t].node = LoadNode(txn[t].config, txn[t].coin).node

\* ------------------------------------------------------------------ integrity
\* C33: a transaction that meets a balance row whose total is not
\* available + locked, or that has a negative column, commits no change to
\* it: no committed step rewrites such a row (its total is never set to
\* restore the equality).
C33_InconsistentRowAborts ==
    [][\A k \in Users \X Coins :
          ~BalanceRowOK(balances[k]) => balances'[k] = balances[k]]_vars

\* ------------------------------------------------------------------ self-trade
\* Every trader holds both coins (each has deposited both).
BothCoins ==
    [k \in Users \X Coins |->
        IF k[1] \in Traders
        THEN [exists |-> TRUE, available |-> InitFunds, locked |-> 0,
              total |-> InitFunds]
        ELSE NoBalance]

SelfInit ==
    /\ AdminInit
    /\ balances = BothCoins
    /\ orders = <<>>
    /\ trades = <<>>
    /\ fees = <<>>
    /\ feePool = [c \in Coins |-> NoFeeBalance]
    /\ transactions = <<>>
    /\ syncState = [c \in Coins |-> NULL]
    /\ conf = [t \in ChainTxids |-> 0]
    /\ chainOut = <<>>
    /\ wd = Idle
    /\ txn = <<>>
    /\ lease = 0
    /\ count = [withdraw |-> 0, sync |-> 0, feew |-> 0]
    /\ last = [op |-> "init", err |-> "", msg |-> ""]
    /\ feeRate \in FeeRates

SpecSelf == SelfInit /\ [][Next]_vars

\* A step whose trades all have user u on both sides.
SelfTrades(u) ==
    /\ NewTrades # {}
    /\ \A j \in NewTrades : BuyerOf(j) = u /\ SellerOf(j) = u

\* C34: when a user's own buy and sell trade with each other the trade is
\* recorded with both fees: the user's base total falls by exactly the base
\* fee and the quote total by exactly the quote fee, the fee pools rise by
\* the same amounts, and both rows keep total = available + locked with no
\* negative column.
C34_SelfTrade ==
    [][\A u \in Users :
          SelfTrades(u) =>
             /\ balances'[<<u, BASE>>].total =
                   RoundQ(ToFine(balances[<<u, BASE>>].total) - SumNew(BaseFee))
             /\ balances'[<<u, QUOTE>>].total =
                   RoundQ(ToFine(balances[<<u, QUOTE>>].total)
                          - SumNew(QuoteFee))
             /\ feePool'[BASE].amount =
                   RoundQ(ToFine(feePool[BASE].amount) + SumNew(BaseFee))
             /\ feePool'[QUOTE].amount =
                   RoundQ(ToFine(feePool[QUOTE].amount) + SumNew(QuoteFee))
             /\ BalanceRowOK(balances'[<<u, BASE>>])
             /\ BalanceRowOK(balances'[<<u, QUOTE>>])]_vars

\* ------------------------------------------------------------------ reservations
\* What the open and partially filled orders of user u reserve in coin c, in
\* fine units: remaining x price of quote for a buy, remaining of base for a
\* sell.
Reserved(u, c) ==
    SumSeq([i \in 1..Len(orders) |->
              IF /\ orders[i].user_id = u
                 /\ orders[i].status \in {"open", "partially_filled"}
                 /\ ReserveCoin(orders[i].side) = c
              THEN RequiredFor(orders[i].side, orders[i].price,
                               orders[i].remaining)
              ELSE 0], Len(orders))

\* C35: in every committed state the locked column of every balance row is
\* the sum of the reservations of the owner's open and partially filled
\* orders in that coin (0 when there is none), so the funds a trade takes
\* from locked are there and locked is never negative.
C35_LockedIsReserved ==
    \A u \in Users, c \in Coins :
        /\ balances[<<u, c>>].locked = RoundQ(Reserved(u, c))
        /\ balances[<<u, c>>].locked >= 0

\* ------------------------------------------------------------------ cancel against match
\* C36: however a cancel interleaves with matching passes, no trade that
\* references an order is committed once its cancel has committed (what
\* the cancel released is not also filled by a trade).
C36_NoTradeAfterCancel ==
    [][\A j \in NewTrades :
          LET b == trades'[j].buy_order_id
              s == trades'[j].sell_order_id
          IN \A i \in {b, s} :
                 i <= Len(orders) => orders[i].status # "cancelled"]_vars

\* ------------------------------------------------------------------ deposit against withdrawal
\* A sync pass as the database sees it.  SyncRead: the pass reads the tables
\* (get_or_create_balance is a plain query, no row lock) and computes its
\* credits in the session.  SyncWrite: the flush and commit; the UPDATE of
\* a row waits for a withdrawal that holds the row's lock, then stores the
\* values the session computed.
SyncRead ==
    /\ count.sync < MaxSyncs
    /\ \A i \in DOMAIN txn : txn[i].pc = "done"
    /\ count' = [count EXCEPT !.sync = @ + 1]
    /\ LET db == [bal |-> balances, txs |-> transactions, cur |-> syncState]
       IN txn' = Append(txn, [pc |-> "read", read |-> db,
                              res |-> sync_balances(db, conf, Coins)])
    /\ UNCHANGED <<ledgerVars, feeRate, adminVars, conf, chainOut, wd, lease,
                   last>>

RowLockFree(rd, res) ==
    IF wd.pc = "idle" THEN TRUE
    ELSE res.bal[<<wd.user_id, wd.coin>>] = rd.bal[<<wd.user_id, wd.coin>>]

SyncWrite ==
    \E i \in DOMAIN txn :
        /\ txn[i].pc = "read"
        /\ LET rd == txn[i].read
               res == txn[i].res
           IN /\ RowLockFree(rd, res)
              /\ balances' = [k \in DOMAIN balances |->
                                WriteChanged(balances[k], rd.bal[k], res.bal[k])]
              /\ transactions' = transactions
                                   \o SubSeq(res.txs, Len(rd.txs) + 1, Len(res.txs))
              /\ syncState' = res.cur
        /\ txn' = [txn EXCEPT ![i].pc = "done"]
        /\ last' = Outcome("sync", "", "")
        /\ UNCHANGED <<orders, trades, fees, feePool, feeRate, adminVars, conf,
                       chainOut, wd, lease, count>>

DepositNext ==
    \/ SyncRead
    \/ SyncWrite
    \/ Confirm
    \/ WithdrawBegin
    \/ NodeSend
    \/ WithdrawRecord
    \/ WithdrawRefund

SpecDeposit == BookInit /\ [][DepositNext]_vars

\* The withdrawals the ledger recorded for one (user, coin).
SentRows(k) ==
    SumSeq([i \in 1..Len(transactions) |->
              IF /\ <<transactions[i].user_id, transactions[i].coin_symbol>> = k
                 /\ transactions[i].direction = "sent"
              THEN transactions[i].amount ELSE 0], Len(transactions))

\* C37: no balance update is lost: when no request is in progress every
\* balance row holds its starting values plus the credits of the committed
\* deposits minus the committed withdrawals, however the withdrawals and
\* the deposit passes interleaved.
C37_NoLostUpdate ==
    (wd.pc = "idle" /\ \A i \in DOMAIN txn : txn[i].pc = "done") =>
        \A k \in Users \X Coins :
            /\ balances[k].available =
                  InitBalances[k].available + ReceivedRows(k) - SentRows(k)
            /\ balances[k].total =
                  InitBalances[k].total + ReceivedRows(k) - SentRows(k)
            /\ balances[k].locked = InitBalances[k].locked

\* ------------------------------------------------------------------ concurrent withdrawals
MaxConcurrentWithdrawals == 2   \* withdrawal requests in flight on one row
WdRequests == 1..MaxConcurrentWithdrawals
Holder == 1                     \* the user all the requests belong to
WdRow == <<Holder, QUOTE>>

\* SET TRANSACTION ISOLATION LEVEL REPEATABLE READ is issued only when the
\* session has no transaction yet; otherwise the engine default applies.
IsolationLevels == {"read_committed", "repeatable_read"}

\* The holder has an open buy that locks part of the quote balance; every
\* request is about to be sent.
WithdrawalsInit ==
    /\ AdminInit
    /\ feeRate = NULL
    /\ \E p \in Prices, a \in Amounts :
          LET db == place_order(EmptyLedger, feeRate, Holder, "buy", p, a).db IN
             /\ balances = db.bal
             /\ orders = db.ord
             /\ trades = db.trades
             /\ fees = db.fees
             /\ feePool = db.pool
             /\ txn = [t \in WdRequests |->
                         [pc |-> "start", amount |-> 0, err |-> "",
                          seen |-> NoBalance, row |-> NoBalance,
                          start |-> db.bal[WdRow], txid |-> 0]]
    /\ transactions = <<>>
    /\ syncState = [c \in Coins |-> NULL]
    /\ conf = [t \in ChainTxids |-> 0]
    /\ chainOut = <<>>
    /\ wd = Idle
    /\ lease = 0
    /\ count = [withdraw |-> 0, sync |-> 0, feew |-> 0]
    /\ last = [op |-> "init", err |-> "", msg |-> ""]

\* Variant without the row lock: the SELECT never waits.
BalanceRowFree_NoLock(t) == TRUE

\* with_for_update(): the SELECT returns when no other transaction holds the
\* lock of the row, which a request keeps from its SELECT to its commit or
\* rollback.
BalanceRowFree(t) ==
    \A o \in WdRequests \ {t} :
        txn[o].pc \notin {"deducted", "dispatched", "failed"}

\* Lines 76-92 on the row the SELECT returned.
WdDeduct(t, amount) ==
    LET d == Deduct(balances, Holder, QUOTE, amount) IN
    IF d.err # ""
    THEN [txn EXCEPT ![t].pc = "done", ![t].err = d.err, ![t].amount = amount]
    ELSE [txn EXCEPT ![t].pc = "deducted", ![t].amount = amount,
                     ![t].row = d.row]

\* The SELECT ... FOR UPDATE is issued: it returns at once, or waits.
WdSelect(t) ==
    \E a \in Amounts :
        /\ txn[t].pc = "start"
        /\ IF BalanceRowFree(t)
           THEN txn' = WdDeduct(t, a)
           ELSE txn' = [txn EXCEPT ![t].pc = "waiting", ![t].amount = a,
                                   ![t].seen = balances[WdRow]]
        /\ UNCHANGED <<ledgerVars, feeRate, adminVars, conf, chainOut, wd,
                       lease, count, last>>

\* The lock is granted.  When the row changed during the wait the statement
\* reads the new row (read committed) or fails (repeatable read).
WdGranted(t) ==
    /\ txn[t].pc = "waiting"
    /\ BalanceRowFree(t)
    /\ \E level \in IsolationLevels :
          IF level = "repeatable_read" /\ balances[WdRow] # txn[t].seen
          THEN txn' = [txn EXCEPT ![t].pc = "done",
                                  ![t].err = "serialization_failure"]
          ELSE txn' = WdDeduct(t, txn[t].amount)
    /\ UNCHANGED <<ledgerVars, feeRate, adminVars, conf, chainOut, wd, lease,
                   count, last>>

\* node.send_to_address and the txid check.
WdSend(t) ==
    \E outcome \in SendOutcomes :
        /\ txn[t].pc = "deducted"
        /\ LET txid == 100 + Len(chainOut) + 1 IN
           /\ chainOut' = IF NodeAccepted(outcome)
                          THEN Append(chainOut,
                                 [user_id |-> Holder, coin |-> QUOTE,
                                  amount |-> txn[t].amount, txid |-> txid,
                                  wire |-> WireAmount(QUOTE, txn[t].amount)])
                          ELSE chainOut
           /\ txn' = IF SendSucceeded(outcome)
                     THEN [txn EXCEPT ![t].pc = "dispatched", ![t].txid = txid]
                     ELSE [txn EXCEPT ![t].pc = "failed", ![t].err = outcome]
        /\ UNCHANGED <<ledgerVars, feeRate, adminVars, conf, wd, lease, count,
                       last>>

\* db.add(new_tx); db.commit().  The insert or the commit may fail.
WdCommit(t) ==
    \E commit_ok \in BOOLEAN :
        /\ txn[t].pc = "dispatched"
        /\ IF commit_ok /\ ~TxExists(transactions, txn[t].txid)
           THEN /\ balances' = [balances EXCEPT
                       ![WdRow].available = txn[t].row.available,
                       ![WdRow].total = txn[t].row.total]
                /\ transactions' = Append(transactions,
                       SentRow(Holder, txn[t].txid, txn[t].amount, QUOTE))
                /\ txn' = [txn EXCEPT ![t].pc = "done"]
           ELSE /\ txn' = [txn EXCEPT ![t].pc = "failed",
                                      ![t].err = "commit_failed"]
                /\ UNCHANGED <<balances, transactions>>
        /\ UNCHANGED <<orders, trades, fees, feePool, syncState, feeRate,
                       adminVars, conf, chainOut, wd, lease, count, last>>

\* except: refund the session's row, roll back, raise.
WdRollback(t) ==
    /\ txn[t].pc = "failed"
    /\ txn' = [txn EXCEPT ![t].pc = "done"]
    /\ UNCHANGED <<ledgerVars, feeRate, adminVars, conf, chainOut, wd, lease,
                   count, last>>

WithdrawSelect == \E t \in WdRequests : WdSelect(t)
WithdrawGranted == \E t \in WdRequests : WdGranted(t)
WithdrawSend == \E t \in WdRequests : WdSend(t)
WithdrawCommit == \E t \in WdRequests : WdCommit(t)
WithdrawRollback == \E t \in WdRequests : WdRollback(t)

WithdrawalsNext ==
    \/ WithdrawSelect
    \/ WithdrawGranted
    \/ WithdrawSend
    \/ WithdrawCommit
    \/ WithdrawRollback

SpecWithdrawals == WithdrawalsInit /\ [][WithdrawalsNext]_vars

\* What the requests that returned a txid withdrew.
Succeeded ==
    SumSeq([t \in WdRequests |->
              IF txn[t].pc = "done" /\ txn[t].err = "" THEN txn[t].amount ELSE 0],
           MaxConcurrentWithdrawals)

\* The row before any request was sent.
StartRow == txn[1].start

\* C38: for concurrent withdrawals against one balance row the amounts of
\* the requests that succeeded never sum to more than the available the row
\* started with, available is never negative and the locked funds are never
\* withdrawn: available and total fall by exactly what was paid and locked
\* stays as it was.
C38_ConcurrentWithdrawals ==
    /\ Succeeded <= StartRow.available
    /\ balances[WdRow].available >= 0
    /\ balances[WdRow].available = StartRow.available - Succeeded
    /\ balances[WdRow].total = StartRow.total - Succeeded
    /\ balances[WdRow].locked = StartRow.locked

\* Two requests that together ask for more than the row holds have both
\* ended: one was paid, the other waited for the row and was then refused
\* for lack of funds.
C38_Witness ==
    \E t, o \in WdRequests :
        /\ txn[t].pc = "done" /\ txn[t].err = ""
        /\ txn[o].pc = "done" /\ txn[o].err = "insufficient_balance"
        /\ txn[t].amount + txn[o].amount > StartRow.available
        /\ txn[o].amount <= StartRow.available
        /\ txn[o].seen.exists
        /\ StartRow.locked > 0

\* ------------------------------------------------------------------ one node down
\* The periodic task while the node of one coin is down: get_node or the
\* node's RPC raises for that coin in every pass, the other nodes answer.
\* The first pass fixes the coin; last.msg names it (the error the pass
\* prints).
SyncNodeDown ==
    \E down \in Coins :
        /\ wd.pc = "idle"
        /\ last.op = "init" \/ last.msg = down
        /\ LET r == sync_balances([bal |-> balances, txs |-> transactions,
                                   cur |-> syncState], conf, Coins \ {down}) IN
           /\ balances' = r.bal
           /\ transactions' = r.txs
           /\ syncState' = r.cur
        /\ last' = Outcome("sync", "node_failed", down)
        /\ UNCHANGED <<orders, trades, fees, feePool, feeRate, adminVars, conf,
                       chainOut, wd, txn, lease, count>>

NodeDownNext ==
    \/ SyncNodeDown
    \/ Confirm

SpecNodeDown ==
    /\ Init
    /\ [][NodeDownNext]_vars
    /\ WF_vars(SyncNodeDown)

\* A transfer of coin c to a registered address has its confirmations.
DepositWaiting(c) ==
    \E i \in 1..Len(Receipts) :
        /\ Receipts[i].coin = c
        /\ OwnerOf(i) # 0
        /\ conf[Receipts[i].txid] >= MIN_CONFIRMATIONS

\* The ledger has credited a deposit of coin c.
DepositCredited(c) ==
    \E j \in 1..Len(transactions) :
        /\ transactions[j].coin_symbol = c
        /\ transactions[j].direction = "received"

\* C39: while the node of one coin fails in every pass, the confirmed
\* deposits of every other coin are still ingested: once such a coin has a
\* confirmed transfer to a registered address, a deposit of that coin is
\* eventually credited.
C39_OtherCoinsStillCredited ==
    \A c \in Coins :
        (last.op = "sync" /\ last.msg # c /\ DepositWaiting(c))
            ~> DepositCredited(c)

\* ------------------------------------------------------------------ trade rows
\* The trades that reference order i, and the amount they moved.
TradesOf(i) ==
    {j \in 1..Len(trades) :
        i \in {trades[j].buy_order_id, trades[j].sell_order_id}}

RECURSIVE TradedAmount(_)
TradedAmount(js) ==
    IF js = {} THEN 0
    ELSE LET j == CHOOSE x \in js : TRUE
         IN trades[j].amount + TradedAmount(js \ {j})

====
